---- MODULE Spec2Model ----
(***************************************************************************)
(* APRK OS - task table, priority round-robin scheduler and the timer      *)
(* interrupt path (kernel/src/sched/mod.rs, arch/arm64/src/exception.rs,   *)
(* kernel/src/main.rs).                                                    *)
(*                                                                         *)
(* The machine is one CPU.  Its position is `cpu`: the frame on top (task  *)
(* code, a step inside schedule(), a halt loop) and, while an exception    *)
(* handler runs, the interrupted frame under it.  A suspended task's       *)
(* stack_top is the saved context: the frames the CPU continues with when  *)
(* context_switch loads it.                                                *)
(***************************************************************************)
EXTENDS Integers, Sequences, FiniteSets, TLC

\* ------------------------------------------------------------------------
\* Program constants
\* ------------------------------------------------------------------------
MAX_TASKS == 16
BASE_TIME_SLICE == 1

\* Priority discriminants (#[repr(u8)]); derive(Ord) orders by discriminant.
Idle == 0
Low == 1
Normal == 2
High == 3
RealTime == 4
Priority == {Idle, Low, Normal, High, RealTime}

TaskState == {"Unused", "Ready", "Running", "Blocked", "Dead"}

\* Interrupt identifiers dispatched by handle_irq_exception.
IRQ_VTIMER == 27
IRQ_PTIMER == 30
IRQ_UART == 33
IRQ_SPURIOUS == 1023
TICK_MS == 500

\* ------------------------------------------------------------------------
\* Bounds of the model
\* ------------------------------------------------------------------------
\* Spawns allowed in the scheduling specifications (table slots 1..MaxSpawn).
MaxSpawn == 2
\* Priorities passed to spawn_named in the scheduling specifications.
SpawnPriorities == {Low, RealTime}
\* Priorities passed to spawn_named in the table-capacity specification.
CapPriorities == {High}
\* An interrupt identifier with no handler (the `_` arm).
IRQ_OTHER == 5
IrqIds == {IRQ_VTIMER, IRQ_PTIMER, IRQ_UART, IRQ_SPURIOUS, IRQ_OTHER}

Slots == 0 .. (MAX_TASKS - 1)

\* ------------------------------------------------------------------------
\* Priority::time_slices
\* ------------------------------------------------------------------------
\* Every priority given one slice.
time_slices_flat(p) ==
    1

time_slices(p) ==
    CASE p = Idle -> 1
      [] p = Low -> 2
      [] p = Normal -> 4
      [] p = High -> 8
      [] p = RealTime -> 16

\* ------------------------------------------------------------------------
\* Positions of the CPU and saved contexts
\* ------------------------------------------------------------------------
\* pc: "task"   kernel-thread code (may call the scheduler operations)
\*     "user"   EL0 code of a user task
\*     "halt"   loop { halt() } after schedule() returned in exit_current_task
\*     "fatal"  loop { halt() } after "FATAL: No runnable tasks!"
\*     "crash"  handle_sync_exception's "System halted." loop
\*     "sel" "nf" "fb_mark" "fb_cur" "fb_switch" "fd" "mark_old" "mark_new"
\*     "set_cur" "switch"   the statements of schedule()
\*     "irq" "svc"  an exception handler's own code: what is left of it is
\*                  the exception return
\* cur, best: schedule()'s locals current_idx and best_idx.
\* ret: where schedule() returns to.
Pos(pc, cur, best, ret) == [pc |-> pc, cur |-> cur, best |-> best, ret |-> ret]
NoPos == Pos("none", 0, 0, "none")
At(pc) == Pos(pc, 0, 0, "none")

SchedPcs == {"sel", "nf", "fb_mark", "fb_cur", "fb_switch", "fd", "mark_old",
             "mark_new", "set_cur", "switch"}
StoppedPcs == {"halt", "fatal", "crash"}

\* A saved-context pointer.  kind "null" is the value 0; "kframe"/"uframe" are
\* the frames spawn builds on a fresh stack; "bad" is a frame built on a null
\* allocation; "saved" is what context_switch stored; "stale" is a pointer
\* into a stack that has been running since the pointer was stored.  owner is
\* the task whose stack the pointer points into.
Ctx(kind, owner, top, under) ==
    [kind |-> kind, owner |-> owner, top |-> top, under |-> under]
NullCtx == Ctx("null", 0, NoPos, NoPos)

\* Task::empty()
EmptyTask ==
    [id |-> 0, stack_top |-> NullCtx, state |-> "Unused", priority |-> Idle,
     remaining_slices |-> 0]

VARIABLES
    TASKS,              \* static mut TASKS: [Task; MAX_TASKS]
    TASK_COUNT,         \* static mut TASK_COUNT
    CURRENT_TASK,       \* static mut CURRENT_TASK
    NEXT_PID,           \* static mut NEXT_PID
    SCHEDULER_ENABLED,  \* static mut SCHEDULER_ENABLED
    cpu,                \* [top, under]: the frames the CPU is executing
    sp_owner,           \* the task whose stack the CPU's SP points into
    irq_masked,         \* PSTATE.I
    initialized,        \* sched::init() has run
    ids,                \* history: identifiers handed out by completed spawns
    fresh,              \* history: the last step switched to the current task
    refused,            \* history: the last step was a spawn refused at capacity
    waited,             \* history: ticks taken since a waiting task last ran
    ELR_EL1,            \* the exception link register
    el0_pc,             \* the address the task at EL0 executes next
    call,               \* per slot: the system call its task is inside
    returned,           \* history: the system call that returned in the last step
    heap,               \* the kernel heap: per block, free or the layout it holds
    heapcall,           \* history: the last alloc or dealloc system call
    uart_lock           \* the console spinlock (static UART): free, or its holder

\* The registers and histories of the system-call path.
sysvars == <<ELR_EL1, el0_pc, call, returned>>

\* The kernel heap as the alloc and dealloc system calls see it.
heapvars == <<heap, heapcall>>

\* The console driver's lock.
consolevars == <<uart_lock>>

vars == <<TASKS, TASK_COUNT, CURRENT_TASK, NEXT_PID, SCHEDULER_ENABLED, cpu,
          sp_owner, irq_masked, initialized, ids, fresh, refused, waited,
          ELR_EL1, el0_pc, call, returned, heap, heapcall,
          uart_lock>>

\* ------------------------------------------------------------------------
\* The machine as one record, so that a handler's calls compose
\* ------------------------------------------------------------------------
NoEvent == [switched |-> FALSE, from |-> 0, to |-> 0, path |-> "none", selected |-> FALSE]

\* What the memory a stale pointer designates holds when it is loaded: the
\* frame stored there is "intact", the frame is the one this very switch has
\* just stored ("same": the outgoing task reloads its own pointer from the
\* same stack depth), or it has been overwritten ("garbage").
StaleOutcomes == {"intact", "same", "garbage"}

Machine(stale) ==
    [TASKS |-> TASKS, TASK_COUNT |-> TASK_COUNT, CURRENT_TASK |-> CURRENT_TASK,
     NEXT_PID |-> NEXT_PID, SCHEDULER_ENABLED |-> SCHEDULER_ENABLED,
     cpu |-> cpu, sp_owner |-> sp_owner, irq_masked |-> irq_masked,
     stale |-> stale, ev |-> NoEvent]

World == Machine("garbage")

\* Task::reset_time_slice
reset_time_slice(T, i) ==
    [T EXCEPT ![i].remaining_slices = time_slices(T[i].priority) * BASE_TIME_SLICE]

\* schedule(): the scan `for i in 1..=count` (lines 366-389).
\* acc = [best_idx, best_priority, found].
RECURSIVE ScanFrom(_, _, _, _, _)
ScanFrom(T, count, current_idx, i, acc) ==
    IF i > count THEN acc
    ELSE LET check_idx == (current_idx + i) % count
             skip == check_idx = 0 /\ T[0].stack_top.kind = "null"
             take == /\ ~skip
                     /\ T[check_idx].state = "Ready"
                     /\ (~acc.found \/ T[check_idx].priority > acc.best_priority)
         IN ScanFrom(T, count, current_idx, i + 1,
               IF take
               THEN [best_idx |-> check_idx,
                     best_priority |-> T[check_idx].priority, found |-> TRUE]
               ELSE acc)

\* The scan started at slot 1 whatever the current index.
Scan_from_table_start(T, count, current_idx) ==
    ScanFrom(T, count, 0, 1,
             [best_idx |-> current_idx, best_priority |-> Idle, found |-> FALSE])

Scan(T, count, current_idx) ==
    ScanFrom(T, count, current_idx, 1,
             [best_idx |-> current_idx, best_priority |-> Idle, found |-> FALSE])

\* The stack of task `owner` is running again: every stored pointer into it
\* designates memory the running code may overwrite.
Reused(T, owner) ==
    [i \in Slots |->
        IF T[i].stack_top.kind \in {"kframe", "uframe", "saved"}
           /\ T[i].stack_top.owner = owner
        THEN [T[i] EXCEPT !.stack_top.kind = "stale"]
        ELSE T[i]]

\* The frames the CPU continues with once `ctx` has been loaded.  A fresh
\* kernel frame returns into task_trampoline (which unmasks interrupts and
\* calls the entry), a fresh user frame into user_trampoline (exception
\* return to EL0, interrupts unmasked).  Loading the value 0 or a frame
\* built on a null allocation restores garbage and ends in the synchronous
\* exception handler's halt.
Resume(w, ctx) ==
    CASE ctx.kind = "kframe" ->
            [w EXCEPT !.cpu = [top |-> At("task"), under |-> NoPos],
                      !.sp_owner = ctx.owner, !.irq_masked = FALSE,
                      !.TASKS = Reused(w.TASKS, ctx.owner)]
      [] ctx.kind = "uframe" ->
            [w EXCEPT !.cpu = [top |-> At("user"), under |-> NoPos],
                      !.sp_owner = ctx.owner, !.irq_masked = FALSE,
                      !.TASKS = Reused(w.TASKS, ctx.owner)]
      [] ctx.kind = "saved" ->
            [w EXCEPT !.cpu = [top |-> ctx.top, under |-> ctx.under],
                      !.sp_owner = ctx.owner,
                      !.TASKS = Reused(w.TASKS, ctx.owner)]
      [] OTHER ->
            [w EXCEPT !.cpu = [top |-> At("crash"), under |-> NoPos],
                      !.sp_owner = ctx.owner, !.irq_masked = TRUE]

\* context_switch(prev_sp, next_sp): store the running context through prev_sp,
\* load next_sp (read by the caller before the call).  `cont` is the frame
\* the outgoing task continues with when it is switched back in.
context_switch(w, prev, next_sp, cont, path) ==
    LET saved == Ctx("saved", w.sp_owner, cont, w.cpu.under)
        w1 == [w EXCEPT !.TASKS[prev].stack_top = saved,
                        !.ev = [switched |-> TRUE, from |-> prev,
                                to |-> w.CURRENT_TASK, path |-> path,
                                selected |-> TRUE]]
        loaded == CASE next_sp.kind # "stale" -> next_sp
                    [] w.stale = "intact" -> [next_sp EXCEPT !.kind = "saved"]
                    [] w.stale = "same" /\ next_sp.owner = w.sp_owner -> saved
                    [] OTHER -> [next_sp EXCEPT !.kind = "bad"]
    IN Resume(w1, loaded)

\* Return from schedule() to its caller.
Return(w) ==
    [w EXCEPT !.cpu.top = At(w.cpu.top.ret)]

\* Enter schedule() from a caller that continues at `ret` when it returns.
Call(w, ret) ==
    [w EXCEPT !.cpu.top = Pos("sel", 0, 0, ret)]

\* lines 359-389: the early return, current_idx, the scan.
sched_select(w) ==
    LET count == w.TASK_COUNT
        current_idx == w.CURRENT_TASK
        r == Scan(w.TASKS, count, current_idx)
    IN IF count <= 1 \/ ~w.SCHEDULER_ENABLED THEN Return(w)
       ELSE [w EXCEPT !.cpu.top.pc = IF r.found THEN "fd" ELSE "nf",
                      !.cpu.top.cur = current_idx,
                      !.cpu.top.best = r.best_idx,
                      !.ev.selected = TRUE]

\* No Ready task found and the current one Running: return, slice untouched.
sched_not_found_keeps_slice(w) ==
    LET current_idx == w.cpu.top.cur
        current_state == w.TASKS[current_idx].state
    IN CASE current_state \in {"Dead", "Blocked"} ->
              IF w.TASKS[0].stack_top.kind # "null"
              THEN [w EXCEPT !.cpu.top.pc = "fb_mark"]
              ELSE [w EXCEPT !.cpu.top = At("fatal")]
         [] OTHER -> Return(w)

\* lines 392-411 without the fall-back's writes: no Ready task was found.
sched_not_found(w) ==
    LET current_idx == w.cpu.top.cur
        current_state == w.TASKS[current_idx].state
    IN CASE current_state = "Running" ->
              Return([w EXCEPT !.TASKS = reset_time_slice(w.TASKS, current_idx)])
         [] current_state \in {"Dead", "Blocked"} ->
              IF w.TASKS[0].stack_top.kind # "null"
              THEN [w EXCEPT !.cpu.top.pc = "fb_mark"]
              ELSE [w EXCEPT !.cpu.top = At("fatal")]
         [] OTHER -> Return(w)

\* line 401
sched_fb_mark(w) ==
    [w EXCEPT !.TASKS[0].state = "Running", !.cpu.top.pc = "fb_cur"]

\* line 402
sched_fb_cur(w) ==
    [w EXCEPT !.CURRENT_TASK = 0, !.cpu.top.pc = "fb_switch"]

\* lines 403-409: the switch to idle; when this task is switched back in,
\* context_switch returns to line 408 ("FATAL: No runnable tasks!", halt loop).
sched_fb_switch(w) ==
    context_switch(w, w.cpu.top.cur, w.TASKS[0].stack_top, At("fatal"), "fallback")

\* lines 415-418: a Ready task was found; don't switch to self.
sched_found(w) ==
    LET current_idx == w.cpu.top.cur
    IN IF w.cpu.top.best = current_idx
       THEN Return([w EXCEPT !.TASKS = reset_time_slice(w.TASKS, current_idx)])
       ELSE [w EXCEPT !.cpu.top.pc = "mark_old"]

\* lines 421-423 without the demotion of the outgoing task.
sched_mark_old_keeps_running(w) ==
    [w EXCEPT !.cpu.top.pc = "mark_new"]

\* lines 421-423
sched_mark_old(w) ==
    LET current_idx == w.cpu.top.cur
    IN [w EXCEPT !.TASKS[current_idx].state =
                     IF @ = "Running" THEN "Ready" ELSE @,
                 !.cpu.top.pc = "mark_new"]

\* lines 426-427
sched_mark_new(w) ==
    LET best_idx == w.cpu.top.best
    IN [w EXCEPT !.TASKS = reset_time_slice(
                     [w.TASKS EXCEPT ![best_idx].state = "Running"], best_idx),
                 !.cpu.top.pc = "set_cur"]

\* line 428
sched_set_cur(w) ==
    [w EXCEPT !.CURRENT_TASK = w.cpu.top.best, !.cpu.top.pc = "switch"]

\* lines 431-434: when this task is switched back in, context_switch returns
\* and schedule() returns to its caller.
sched_switch(w) ==
    context_switch(w, w.cpu.top.cur, w.TASKS[w.cpu.top.best].stack_top,
                   At(w.cpu.top.ret), "normal")

\* One statement group of schedule().
SchedStep(w) ==
    CASE w.cpu.top.pc = "sel" -> sched_select(w)
      [] w.cpu.top.pc = "nf" -> sched_not_found(w)
      [] w.cpu.top.pc = "fb_mark" -> sched_fb_mark(w)
      [] w.cpu.top.pc = "fb_cur" -> sched_fb_cur(w)
      [] w.cpu.top.pc = "fb_switch" -> sched_fb_switch(w)
      [] w.cpu.top.pc = "fd" -> sched_found(w)
      [] w.cpu.top.pc = "mark_old" -> sched_mark_old(w)
      [] w.cpu.top.pc = "mark_new" -> sched_mark_new(w)
      [] w.cpu.top.pc = "set_cur" -> sched_set_cur(w)
      [] w.cpu.top.pc = "switch" -> sched_switch(w)

\* The exception return of a handler: back to the interrupted frame with the
\* interrupted PSTATE (interrupts unmasked, or the exception was not taken).
ExceptionReturn(w) ==
    IF w.cpu.top.pc \in {"irq", "svc"}
    THEN [w EXCEPT !.cpu = [top |-> w.cpu.under, under |-> NoPos],
                   !.irq_masked = FALSE]
    ELSE w

\* schedule() run to its end with no interrupt taken inside it: statement
\* groups until it has returned or switched.
RECURSIVE RunSched(_)
RunSched(w) ==
    IF w.cpu.top.pc \notin SchedPcs \/ w.ev.switched THEN w
    ELSE RunSched(SchedStep(w))

\* pub fn schedule(), called from a frame that continues at `ret`.
schedule(w, ret) ==
    RunSched(Call(w, ret))

\* tick that charges the current task before it tests the enable flag.
tick_charges_first(w) ==
    LET c == w.CURRENT_TASK
        dec == IF w.TASKS[c].remaining_slices > 0
               THEN [w EXCEPT !.TASKS[c].remaining_slices = @ - 1]
               ELSE w
    IN IF ~w.SCHEDULER_ENABLED \/ w.TASK_COUNT <= 1 THEN dec
       ELSE IF dec.TASKS[c].remaining_slices = 0
            THEN schedule(dec, "irq")
            ELSE dec

\* pub fn tick(), lines 335-354 (called by kernel_tick inside the handler).
tick(w) ==
    LET c == w.CURRENT_TASK
        dec == IF w.TASKS[c].remaining_slices > 0
               THEN [w EXCEPT !.TASKS[c].remaining_slices = @ - 1]
               ELSE w
    IN IF ~w.SCHEDULER_ENABLED \/ w.TASK_COUNT <= 1 THEN w
       ELSE IF dec.TASKS[c].remaining_slices = 0
            THEN schedule(dec, "irq")
            ELSE dec

\* pub fn block_current_task(), line 316 then schedule().
block_current_task(w) ==
    schedule([w EXCEPT !.TASKS[w.CURRENT_TASK].state = "Blocked"], "task")

\* pub fn exit_current_task(), line 282 then schedule(), then loop { halt() }.
exit_current_task(w) ==
    schedule([w EXCEPT !.TASKS[w.CURRENT_TASK].state = "Dead"], "halt")

\* pub fn wake_task(pid): the first slot below TASK_COUNT with that id and
\* state Blocked becomes Ready.
WakeIndex(w, pid) ==
    {i \in 0 .. (w.TASK_COUNT - 1) :
        /\ w.TASKS[i].id = pid /\ w.TASKS[i].state = "Blocked"
        /\ \A j \in 0 .. (i - 1) :
              ~(w.TASKS[j].id = pid /\ w.TASKS[j].state = "Blocked")}

\* wake_task that also gives the woken task a full time slice.
wake_task_refill(w, pid) ==
    IF WakeIndex(w, pid) = {} THEN w
    ELSE LET i == CHOOSE i \in WakeIndex(w, pid) : TRUE
         IN [w EXCEPT !.TASKS = reset_time_slice(
                          [w.TASKS EXCEPT ![i].state = "Ready"], i)]

wake_task(w, pid) ==
    IF WakeIndex(w, pid) = {} THEN w
    ELSE LET i == CHOOSE i \in WakeIndex(w, pid) : TRUE
         IN [w EXCEPT !.TASKS[i].state = "Ready"]

\* pub fn enable()
enable(w) ==
    [w EXCEPT !.SCHEDULER_ENABLED = TRUE]

\* pub fn init(), lines 103-117.
sched_init(w) ==
    [w EXCEPT !.TASKS[0] = [id |-> 0, stack_top |-> NullCtx, state |-> "Running",
                            priority |-> Idle, remaining_slices |-> 1],
              !.TASK_COUNT = 1, !.NEXT_PID = 1, !.SCHEDULER_ENABLED = FALSE]

\* The handler returning to the interrupted code after the diagnostic.
sync_fault_returns(w) ==
    w

\* A synchronous exception that is not a system call (lines 84-94): the
\* diagnostic, then loop { spin_loop() } with interrupts masked by the entry.
sync_fault(w) ==
    [w EXCEPT !.cpu = [top |-> At("crash"), under |-> w.cpu.top],
              !.irq_masked = TRUE]

\* spawn with the identifier counter left as it was.
spawn_common_same_pid(w, frame, priority, alloc) ==
    LET slot == w.TASK_COUNT
        id == w.NEXT_PID
        stack_top == Ctx(IF alloc = "ok" THEN frame ELSE "bad", slot, NoPos, NoPos)
        filled == [id |-> id, stack_top |-> stack_top, state |-> "Ready",
                   priority |-> priority, remaining_slices |-> 0]
    IN IF w.TASK_COUNT >= MAX_TASKS THEN w
       ELSE IF alloc = "fault"
            THEN sync_fault(w)
            ELSE [w EXCEPT !.TASKS = reset_time_slice(
                               [w.TASKS EXCEPT ![slot] = filled], slot),
                           !.TASK_COUNT = slot + 1]

\* spawn taking the identifier before the capacity check.
spawn_common_early_pid(w, frame, priority, alloc) ==
    LET slot == w.TASK_COUNT
        id == w.NEXT_PID
        stack_top == Ctx(IF alloc = "ok" THEN frame ELSE "bad", slot, NoPos, NoPos)
        filled == [id |-> id, stack_top |-> stack_top, state |-> "Ready",
                   priority |-> priority, remaining_slices |-> 0]
    IN IF w.TASK_COUNT >= MAX_TASKS THEN [w EXCEPT !.NEXT_PID = id + 1]
       ELSE IF alloc = "fault"
            THEN sync_fault([w EXCEPT !.NEXT_PID = id + 1])
            ELSE [w EXCEPT !.NEXT_PID = id + 1,
                           !.TASKS = reset_time_slice(
                               [w.TASKS EXCEPT ![slot] = filled], slot),
                           !.TASK_COUNT = slot + 1]

\* spawn that leaves the new slot's saved-context pointer zero.
spawn_common_null_stack(w, frame, priority, alloc) ==
    LET slot == w.TASK_COUNT
        id == w.NEXT_PID
        filled == [id |-> id, stack_top |-> NullCtx, state |-> "Ready",
                   priority |-> priority, remaining_slices |-> 0]
    IN IF w.TASK_COUNT >= MAX_TASKS THEN w
       ELSE IF alloc = "fault"
            THEN sync_fault([w EXCEPT !.NEXT_PID = id + 1])
            ELSE [w EXCEPT !.NEXT_PID = id + 1,
                           !.TASKS = reset_time_slice(
                               [w.TASKS EXCEPT ![slot] = filled], slot),
                           !.TASK_COUNT = slot + 1]

\* spawn that fills the slot without giving it a time slice.
spawn_common_no_slice(w, frame, priority, alloc) ==
    LET slot == w.TASK_COUNT
        id == w.NEXT_PID
        stack_top == Ctx(IF alloc = "ok" THEN frame ELSE "bad", slot, NoPos, NoPos)
        filled == [id |-> id, stack_top |-> stack_top, state |-> "Ready",
                   priority |-> priority, remaining_slices |-> 0]
    IN IF w.TASK_COUNT >= MAX_TASKS THEN w
       ELSE IF alloc = "fault"
            THEN sync_fault([w EXCEPT !.NEXT_PID = id + 1])
            ELSE [w EXCEPT !.NEXT_PID = id + 1,
                           !.TASKS = [w.TASKS EXCEPT ![slot] = filled],
                           !.TASK_COUNT = slot + 1]

\* spawn that ends with a call of schedule().
spawn_common_then_schedule(w, frame, priority, alloc) ==
    LET slot == w.TASK_COUNT
        id == w.NEXT_PID
        stack_top == Ctx(IF alloc = "ok" THEN frame ELSE "bad", slot, NoPos, NoPos)
        filled == [id |-> id, stack_top |-> stack_top, state |-> "Ready",
                   priority |-> priority, remaining_slices |-> 0]
    IN IF w.TASK_COUNT >= MAX_TASKS THEN w
       ELSE IF alloc = "fault"
            THEN sync_fault([w EXCEPT !.NEXT_PID = id + 1])
            ELSE schedule([w EXCEPT !.NEXT_PID = id + 1,
                                    !.TASKS = reset_time_slice(
                                        [w.TASKS EXCEPT ![slot] = filled], slot),
                                    !.TASK_COUNT = slot + 1], "task")

\* The part of spawn_named / spawn_user they share: the capacity check, the
\* slot and the identifier, the stack allocation and the frame, the slot's
\* fields, TASK_COUNT.  `frame` is the kind of frame built ("kframe" or
\* "uframe").  alloc is what alloc::alloc::alloc gave:
\*   "ok"    a stack;
\*   "null"  a null pointer, and the writes through it went to low memory;
\*   "fault" a null pointer, and the first write through it faulted.
\* Neither function tests the pointer.
spawn_common(w, frame, priority, alloc) ==
    LET slot == w.TASK_COUNT
        id == w.NEXT_PID
        stack_top == Ctx(IF alloc = "ok" THEN frame ELSE "bad", slot, NoPos, NoPos)
        filled == [id |-> id, stack_top |-> stack_top, state |-> "Ready",
                   priority |-> priority, remaining_slices |-> 0]
    IN IF w.TASK_COUNT >= MAX_TASKS THEN w
       ELSE IF alloc = "fault"
            THEN sync_fault([w EXCEPT !.NEXT_PID = id + 1])
            ELSE [w EXCEPT !.NEXT_PID = id + 1,
                           !.TASKS = reset_time_slice(
                               [w.TASKS EXCEPT ![slot] = filled], slot),
                           !.TASK_COUNT = slot + 1]

\* pub fn spawn_named(entry, name, priority), lines 137-184.
spawn_named(w, priority, alloc) ==
    spawn_common(w, "kframe", priority, alloc)

\* pub fn spawn_user(entry_addr, name), lines 187-237: priority Normal.
spawn_user(w, alloc) ==
    spawn_common(w, "uframe", Normal, alloc)

\* ------------------------------------------------------------------------
\* The initial frame of a kernel task and the trampoline's reading of it
\* ------------------------------------------------------------------------
\* The address of task_trampoline.
TASK_TRAMPOLINE == "task_trampoline"
\* The cooperative-switch frame: 14 words (x19..x30 at words 0..11, SP_EL0
\* at word 12).
FRAME_WORDS == 14

\* Word k (from 0) of a frame.
Word(frame, k) == frame[k + 1]

\* A frame whose entry address is stored in the x20 slot.
kernel_frame_entry_in_x20(entry) ==
    [k \in 1 .. FRAME_WORDS |->
        CASE k = 2 -> entry
          [] k = 12 -> TASK_TRAMPOLINE
          [] OTHER -> 0]

\* spawn_named, lines 153-169: *sp.add(0) = entry, *sp.add(11) =
\* task_trampoline, *sp.add(12) = 0; the other words are not written (read
\* here as 0).
kernel_frame(entry) ==
    [k \in 1 .. FRAME_WORDS |->
        CASE k = 1 -> entry
          [] k = 12 -> TASK_TRAMPOLINE
          [] OTHER -> 0]

\* context_switch's restore: the preserved registers out of the frame, the
\* return address x30 among them.
context_restore(frame) ==
    [x19 |-> Word(frame, 0), x20 |-> Word(frame, 1),
     x30 |-> Word(frame, 11), sp_el0 |-> Word(frame, 12)]

\* task_trampoline, lines 241-250: mov entry, x19; enable_interrupts();
\* entry(); exit_current_task().
task_trampoline(regs) ==
    [entry |-> regs.x19, irq_masked |-> FALSE]

\* The timer arm with the rearm and the end-of-interrupt written after the
\* call of kernel_tick.
timer_arm_cleanup_last(iar) ==
    [before |-> <<>>,
     after |-> <<[dev |-> "timer", what |-> "set_next_tick", arg |-> TICK_MS],
                 [dev |-> "gic", what |-> "end_interrupt", arg |-> iar]>>]

\* handle_irq_exception, the timer arm: what it does to the devices before
\* it calls kernel_tick (lines 110-111) and after kernel_tick has returned
\* to it (line 115: nothing).
timer_arm(iar) ==
    [before |-> <<[dev |-> "timer", what |-> "set_next_tick", arg |-> TICK_MS],
                  [dev |-> "gic", what |-> "end_interrupt", arg |-> iar]>>,
     after |-> <<>>]

\* Interrupt entry: the interrupted frame goes under the handler's, PSTATE.I
\* is set.
irq_enter(w) ==
    [w EXCEPT !.cpu = [top |-> At("irq"), under |-> w.cpu.top],
              !.irq_masked = TRUE]

\* kernel_tick has returned to the handler that called it (it has not
\* switched away and is not halted).
returns(w) ==
    w.cpu.top.pc = "irq" /\ ~w.ev.switched

\* handle_irq_exception, lines 99-132: the machine after it.
irq_machine(w, iar) ==
    LET irq_id == iar % 1024
    IN IF irq_id \in {IRQ_VTIMER, IRQ_PTIMER}
       THEN ExceptionReturn(tick(irq_enter(w)))
       ELSE ExceptionReturn(irq_enter(w))

\* A handler whose spurious arm falls through to the common end-of-interrupt.
irq_events_spurious_eoi(w, iar) ==
    LET irq_id == iar % 1024
        eoi == <<[dev |-> "gic", what |-> "end_interrupt", arg |-> iar]>>
    IN CASE irq_id \in {IRQ_VTIMER, IRQ_PTIMER} ->
              timer_arm(iar).before
                \o <<[dev |-> "sched", what |-> "kernel_tick", arg |-> 0]>>
         [] irq_id = IRQ_UART ->
              <<[dev |-> "uart", what |-> "handle_irq", arg |-> 0]>> \o eoi
         [] OTHER -> eoi

\* handle_irq_exception, lines 99-132: what it did to the devices, in order.
\* kernel_tick is listed where it is called.
irq_events(w, iar) ==
    LET irq_id == iar % 1024
        eoi == <<[dev |-> "gic", what |-> "end_interrupt", arg |-> iar]>>
        ticked == tick(irq_enter(w))
    IN CASE irq_id \in {IRQ_VTIMER, IRQ_PTIMER} ->
              timer_arm(iar).before
                \o <<[dev |-> "sched", what |-> "kernel_tick", arg |-> 0]>>
                \o (IF returns(ticked) THEN timer_arm(iar).after ELSE <<>>)
         [] irq_id = IRQ_UART ->
              <<[dev |-> "uart", what |-> "handle_irq", arg |-> 0]>> \o eoi
         [] irq_id = IRQ_SPURIOUS -> <<>>
         [] OTHER ->
              <<[dev |-> "console", what |-> "println", arg |-> irq_id]>> \o eoi

\* System call numbers (kernel_syscall_handler's match arms).
SYS_PRINT == 0
SYS_EXIT == 1
SYS_GETPID == 2
SYS_YIELD == 3
SYS_SLEEP == 4
SYS_ALLOC == 5
SYS_DEALLOC == 6

\* Exception entry by SVC from EL0: the user frame goes under the handler's,
\* PSTATE.I is set.
svc_enter(w) ==
    [w EXCEPT !.cpu = [top |-> At("svc"), under |-> w.cpu.top],
              !.irq_masked = TRUE]

\* A sleep that returns without calling schedule().
kernel_syscall_handler_sleep_returns(w, id) ==
    CASE id = SYS_EXIT -> exit_current_task(w)
      [] id = SYS_YIELD -> schedule(w, "svc")
      [] OTHER -> w

\* An unknown number treated as a yield.
kernel_syscall_handler_unknown_yields(w, id) ==
    CASE id = SYS_EXIT -> exit_current_task(w)
      [] id \in {SYS_PRINT, SYS_GETPID} -> w
      [] OTHER -> schedule(w, "svc")

\* kernel_syscall_handler, the arms that reach the scheduler (main.rs
\* lines 144-158).
kernel_syscall_handler(w, id) ==
    CASE id = SYS_EXIT -> exit_current_task(w)
      [] id \in {SYS_YIELD, SYS_SLEEP} -> schedule(w, "svc")
      [] OTHER -> w

\* handle_sync_exception with EC = 0x15 (lines 65-82): the machine after it.
svc_machine(w, id) ==
    ExceptionReturn(kernel_syscall_handler(svc_enter(w), id))

\* ------------------------------------------------------------------------
\* System calls: the value kernel_syscall_handler returns and what the
\* print arm writes to the console
\* ------------------------------------------------------------------------
\* u64::MAX, all 64 bits set, written as the two's-complement integer with
\* that bit pattern (the other results are small non-negative numbers).
U64_MAX == -1

\* sched::current_task_id
current_task_id(w) == w.TASKS[w.CURRENT_TASK].id

\* The value of kernel_syscall_handler's match, arms 0, 2, 3, 4 and `_`
\* (main.rs lines 126-196), w being the machine the arm leaves.
syscall_result(w, id) ==
    CASE id = SYS_PRINT -> 0
      [] id = SYS_GETPID -> current_task_id(w)
      [] id \in {SYS_YIELD, SYS_SLEEP} -> 0
      [] id \notin 0 .. 6 -> U64_MAX

\* Bytes: line feed, carriage return, and the literal "<?>".
LF == 10
CR == 13
Replacement == <<60, 63, 62>>

\* A UTF-8 continuation byte.
Cont(b) == b \in 128 .. 191

\* core::str::from_utf8(slice).is_ok(): the bytes are well-formed UTF-8
\* (one to four byte sequences, no overlong forms, no surrogates, nothing
\* above U+10FFFF).
RECURSIVE from_utf8_ok(_)
from_utf8_ok(s) ==
    IF s = <<>> THEN TRUE
    ELSE LET b == Head(s)
             n == Len(s)
         IN CASE b < 128 -> from_utf8_ok(Tail(s))
              [] b \in 194 .. 223 ->
                    /\ n >= 2 /\ Cont(s[2])
                    /\ from_utf8_ok(SubSeq(s, 3, n))
              [] b \in 224 .. 239 ->
                    /\ n >= 3
                    /\ s[2] \in (IF b = 224 THEN 160 .. 191
                                 ELSE IF b = 237 THEN 128 .. 159
                                 ELSE 128 .. 191)
                    /\ Cont(s[3])
                    /\ from_utf8_ok(SubSeq(s, 4, n))
              [] b \in 240 .. 244 ->
                    /\ n >= 4
                    /\ s[2] \in (IF b = 240 THEN 144 .. 191
                                 ELSE IF b = 244 THEN 128 .. 143
                                 ELSE 128 .. 191)
                    /\ Cont(s[3]) /\ Cont(s[4])
                    /\ from_utf8_ok(SubSeq(s, 5, n))
              [] OTHER -> FALSE

\* Uart::puts without the line-feed conversion.
RECURSIVE puts_raw(_)
puts_raw(s) ==
    IF s = <<>> THEN <<>> ELSE <<Head(s)>> \o puts_raw(Tail(s))

\* Uart::puts (uart.rs lines 160-168): the bytes putc is called with.
RECURSIVE puts(_)
puts(s) ==
    IF s = <<>> THEN <<>>
    ELSE (IF Head(s) = LF THEN <<CR, LF>> ELSE <<Head(s)>>) \o puts(Tail(s))

\* core::slice::from_raw_parts(ptr, len), ptr pointing at the bytes buf.
from_raw_parts(buf, len) == SubSeq(buf, 1, len)

\* kernel_syscall_handler, arm 0 (main.rs lines 127-143): the bytes written
\* to the console; buf is what the memory at arg0 holds.
sys_print(buf, arg0, arg1) ==
    IF arg0 # 0 /\ arg1 > 0
    THEN LET slice == from_raw_parts(buf, arg1)
         IN puts(IF from_utf8_ok(slice) THEN slice ELSE Replacement)
    ELSE <<>>

\* ------------------------------------------------------------------------
\* The kernel heap and the alloc / dealloc arms of kernel_syscall_handler
\* ------------------------------------------------------------------------
\* mm::heap::HEAP_START (0x4100_0000).
HEAP_START == 1090519040
\* The heap as blocks of BlockSize bytes, each free or holding one
\* allocation.
HeapBlocks == 2
BlockSize == 64
BlockAddrs == {HEAP_START + k * BlockSize : k \in 0 .. (HeapBlocks - 1)}

\* state: "free", "live" (allocated with the layout size, align) or
\* "corrupt" (freed with a layout other than the one it was allocated with).
FreeBlock == [state |-> "free", size |-> 0, align |-> 0]

\* The last alloc or dealloc call: the caller's x0, x1, x2, the fourth value
\* kernel_syscall_handler received, the value it returned and the heap
\* before the call.
NoHeapCall ==
    [valid |-> FALSE, id |-> 0, x0 |-> 0, x1 |-> 0, x2 |-> 0, arg2 |-> 0,
     result |-> 0, before |-> [a \in BlockAddrs |-> FreeBlock]]

\* usize::is_power_of_two for the values an Int represents.
is_power_of_two(a) == a \in {2 ^ k : k \in 0 .. 30}

\* core::alloc::Layout::from_size_align(size, align): Ok when align is a
\* power of two and size, rounded up to align, does not exceed isize::MAX.
\* A value below 0 stands for the u64 of that two's-complement pattern (see
\* U64_MAX), which is above isize::MAX and no power of two.
Layout_from_size_align(size, align) ==
    [ok |-> is_power_of_two(align) /\ size >= 0, size |-> size, align |-> align]

\* The free blocks that can hold the layout.
FreeFor(hp, layout) ==
    {a \in BlockAddrs :
        /\ hp[a].state = "free"
        /\ a % layout.align = 0
        /\ layout.size <= BlockSize}

\* alloc::alloc::alloc(layout): the lowest block that fits, or null.
heap_alloc(hp, layout) ==
    IF FreeFor(hp, layout) = {} THEN [heap |-> hp, ptr |-> 0]
    ELSE LET a == CHOOSE a \in FreeFor(hp, layout) :
                      \A b \in FreeFor(hp, layout) : a <= b
         IN [heap |-> [hp EXCEPT ![a] = [state |-> "live",
                                         size |-> layout.size,
                                         align |-> layout.align]],
             ptr |-> a]

\* alloc::alloc::dealloc(ptr, layout).  Its contract wants ptr to designate a
\* live block allocated with this very layout; otherwise the behaviour is
\* undefined and ub is what the allocator made of it: the block "freed", or
\* the heap "corrupt".
heap_dealloc(hp, ptr, layout, ub) ==
    IF ptr \in BlockAddrs
    THEN IF hp[ptr] = [state |-> "live", size |-> layout.size,
                       align |-> layout.align]
            \/ ub = "freed"
         THEN [hp EXCEPT ![ptr] = FreeBlock]
         ELSE [hp EXCEPT ![ptr].state = "corrupt"]
    ELSE IF ub = "freed" THEN hp
         ELSE [a \in BlockAddrs |-> [hp[a] EXCEPT !.state = "corrupt"]]

\* kernel_syscall_handler, arm 5 (lines 159-179): size = arg0, align = arg1.
sys_alloc(hp, arg0, arg1) ==
    LET layout == Layout_from_size_align(arg0, arg1)
        r == heap_alloc(hp, layout)
    IN IF layout.ok
       THEN [heap |-> r.heap, result |-> r.ptr]
       ELSE [heap |-> hp, result |-> 0]

\* kernel_syscall_handler, arm 6 (lines 180-190): ptr = arg0, size = arg1,
\* align = arg2.
sys_dealloc(hp, arg0, arg1, arg2, ub) ==
    LET layout == Layout_from_size_align(arg1, arg2)
    IN IF layout.ok
       THEN [heap |-> heap_dealloc(hp, arg0, layout, ub), result |-> 0]
       ELSE [heap |-> hp, result |-> 1]

\* ------------------------------------------------------------------------
\* Specification: every operation runs to its end before the next interrupt
\* ------------------------------------------------------------------------
AllocOutcomes == {"ok", "null", "fault"}
SyscallIds == {SYS_EXIT, SYS_YIELD, SYS_SLEEP}
Pids == 0 .. MaxSpawn

\* The machine becomes w.
Becomes(w) ==
    /\ TASKS' = w.TASKS
    /\ TASK_COUNT' = w.TASK_COUNT
    /\ CURRENT_TASK' = w.CURRENT_TASK
    /\ NEXT_PID' = w.NEXT_PID
    /\ SCHEDULER_ENABLED' = w.SCHEDULER_ENABLED
    /\ cpu' = w.cpu
    /\ sp_owner' = w.sp_owner
    /\ irq_masked' = w.irq_masked
    /\ fresh' = w.ev.switched

\* A code address: the task whose program it lies in (MAX_TASKS for the
\* kernel's own text) and the byte offset from that program's entry point.
Addr(owner, off) == [owner |-> owner, off |-> off]
KernelText == Addr(MAX_TASKS, 0)

\* A system call in progress: its number, the x0 saved in the caller's
\* exception frame (arg0) and the address of its SVC instruction.
NoCall == [active |-> FALSE, id |-> 0, arg0 |-> 0, at |-> KernelText]

\* What the print arm was given and wrote: len, the bytes at ptr, the bytes
\* sent to the console.
NoIo == [arg1 |-> 0, buf |-> <<>>, out |-> <<>>]

\* A system call that has returned to EL0: the task it returned in, the
\* call's number, the x0 the task finds, the value the kernel service
\* computed, the address the task resumes at, the address of its SVC.
NoRet ==
    [valid |-> FALSE, task |-> 0, id |-> 0, x0 |-> 0, result |-> 0,
     pc |-> KernelText, at |-> KernelText, io |-> NoIo]

\* The console lock: not held, or held by the task on whose stack the
\* holder runs.
FreeLock == [held |-> FALSE, by |-> 0]

\* Kernel code that may call the scheduler's functions is running.
InTask == initialized /\ cpu.top.pc = "task"

\* An interrupt can be taken: PSTATE.I is clear (so no handler is running).
IrqOpen == ~irq_masked /\ cpu.under = NoPos

\* The statics' initial values; kernel_main is running on the boot stack
\* with interrupts unmasked (arch::init) and has not called sched::init yet.
Init ==
    /\ TASKS = [i \in Slots |-> EmptyTask]
    /\ TASK_COUNT = 0
    /\ CURRENT_TASK = 0
    /\ NEXT_PID = 0
    /\ SCHEDULER_ENABLED = FALSE
    /\ cpu = [top |-> At("task"), under |-> NoPos]
    /\ sp_owner = 0
    /\ irq_masked = FALSE
    /\ initialized = FALSE
    /\ ids = <<>>
    /\ fresh = FALSE
    /\ refused = FALSE
    /\ waited = [i \in Slots |-> 0]
    /\ ELR_EL1 = KernelText
    /\ el0_pc = KernelText
    /\ call = [i \in Slots |-> NoCall]
    /\ returned = NoRet
    /\ heap = [a \in BlockAddrs |-> FreeBlock]
    /\ heapcall = NoHeapCall
    /\ uart_lock = FreeLock

DoInit ==
    /\ ~initialized /\ cpu.top.pc = "task"
    /\ Becomes(sched_init(World))
    /\ initialized' = TRUE
    /\ UNCHANGED <<ids, refused, waited, sysvars, heapvars, consolevars>>

DoEnable ==
    /\ InTask
    /\ Becomes(enable(World))
    /\ UNCHANGED <<initialized, ids, refused, waited, sysvars, heapvars, consolevars>>

\* A spawn called below capacity that returned: the identifier it gave the
\* new slot.
Handed(w, alloc) ==
    IF TASK_COUNT < MAX_TASKS /\ alloc # "fault"
    THEN Append(ids, w.TASKS[TASK_COUNT].id)
    ELSE ids

DoSpawnNamed(priority, alloc) ==
    /\ InTask
    /\ LET w == spawn_named(World, priority, alloc)
       IN /\ Becomes(w)
          /\ ids' = Handed(w, alloc)
    /\ refused' = (TASK_COUNT >= MAX_TASKS)
    /\ UNCHANGED <<initialized, waited, sysvars, heapvars, consolevars>>

DoSpawnUser(alloc) ==
    /\ InTask
    /\ LET w == spawn_user(World, alloc)
       IN /\ Becomes(w)
          /\ ids' = Handed(w, alloc)
    /\ refused' = (TASK_COUNT >= MAX_TASKS)
    /\ UNCHANGED <<initialized, waited, sysvars, heapvars, consolevars>>

DoSchedule ==
    /\ InTask
    /\ Becomes(ExceptionReturn(schedule(World, "task")))
    /\ UNCHANGED <<initialized, ids, refused, waited, sysvars, heapvars, consolevars>>

DoBlock ==
    /\ InTask
    /\ \E stale \in StaleOutcomes :
          Becomes(ExceptionReturn(block_current_task(Machine(stale))))
    /\ UNCHANGED <<initialized, ids, refused, waited, sysvars, heapvars, consolevars>>

DoExit ==
    /\ InTask
    /\ \E stale \in StaleOutcomes :
          Becomes(ExceptionReturn(exit_current_task(Machine(stale))))
    /\ UNCHANGED <<initialized, ids, refused, waited, sysvars, heapvars, consolevars>>

DoWake(pid) ==
    /\ InTask
    /\ Becomes(wake_task(World, pid))
    /\ UNCHANGED <<initialized, ids, refused, waited, sysvars, heapvars, consolevars>>

\* A user task executes SVC.
DoSyscall(id) ==
    /\ initialized /\ cpu.top.pc = "user"
    /\ Becomes(svc_machine(World, id))
    /\ UNCHANGED <<initialized, ids, refused, waited, sysvars, heapvars, consolevars>>

DoIrq(iar) ==
    /\ IrqOpen
    /\ Becomes(irq_machine(World, iar))
    /\ UNCHANGED <<initialized, ids, refused, waited, sysvars, heapvars, consolevars>>

Next ==
    \/ DoInit
    \/ DoEnable
    \/ \E p \in SpawnPriorities, a \in AllocOutcomes :
          NEXT_PID <= MaxSpawn /\ DoSpawnNamed(p, a)
    \/ \E a \in AllocOutcomes : NEXT_PID <= MaxSpawn /\ DoSpawnUser(a)
    \/ DoSchedule
    \/ DoBlock
    \/ DoExit
    \/ \E pid \in Pids : DoWake(pid)
    \/ \E id \in SyscallIds : DoSyscall(id)
    \/ \E iar \in IrqIds : DoIrq(iar)

Spec == Init /\ [][Next]_vars

\* ------------------------------------------------------------------------
\* Specification: boot-time spawning up to the table's capacity, the
\* scheduler not yet enabled
\* ------------------------------------------------------------------------
CapAllocOutcomes == {"ok", "fault"}

NextCap ==
    \/ DoInit
    \/ \E p \in CapPriorities, a \in CapAllocOutcomes : DoSpawnNamed(p, a)
    \/ \E a \in CapAllocOutcomes : DoSpawnUser(a)

SpecCap == Init /\ [][NextCap]_vars

\* ------------------------------------------------------------------------
\* Specification: tasks that never block or exit, preempted by the timer,
\* which fires for ever
\* ------------------------------------------------------------------------
\* Spawns allowed in this specification.
MaxSpawnRR == 3
RRPriorities == {Low, Normal}

\* Ticks counted for a waiting task; the count stops at this value.
MaxWait == 17

\* The timer interrupt; a tick taken with the scheduler enabled is counted
\* for every task in the table that is not the running one after it.
TimerTick ==
    /\ IrqOpen
    /\ LET w == irq_machine(World, IRQ_VTIMER)
       IN /\ Becomes(w)
          /\ waited' = [i \in Slots |->
                 IF i < w.TASK_COUNT /\ i # w.CURRENT_TASK /\ w.SCHEDULER_ENABLED
                 THEN IF waited[i] < MaxWait THEN waited[i] + 1 ELSE MaxWait
                 ELSE 0]
    /\ UNCHANGED <<initialized, ids, refused, sysvars, heapvars, consolevars>>

NextRR ==
    \/ DoInit
    \/ DoEnable
    \/ \E p \in RRPriorities : NEXT_PID <= MaxSpawnRR /\ DoSpawnNamed(p, "ok")
    \/ TimerTick

SpecRR == Init /\ [][NextRR]_vars

\* ------------------------------------------------------------------------
\* Specification: schedule() called from task code runs one statement group
\* at a time with interrupts unmasked, and the timer interrupt is taken
\* between any two of them
\* ------------------------------------------------------------------------
\* Spawns allowed in this specification.
MaxSpawnPreempt == 1
PreemptPriorities == {Low}

InSchedule == initialized /\ cpu.top.pc \in SchedPcs

\* schedule() is called from task code (shell.rs line 64).
BeginSchedule ==
    /\ InTask
    /\ Becomes(Call(World, "task"))
    /\ UNCHANGED <<initialized, ids, refused, waited, sysvars, heapvars, consolevars>>

\* The next statement group of the schedule() in progress.
Step(stale) ==
    /\ InSchedule
    /\ Becomes(ExceptionReturn(SchedStep(Machine(stale))))
    /\ UNCHANGED <<initialized, ids, refused, waited, sysvars, heapvars, consolevars>>

\* The timer interrupt, taken wherever interrupts are unmasked; its handler
\* runs with interrupts masked, to its end or to its switch.
TimerIrq(stale) ==
    /\ IrqOpen
    /\ Becomes(irq_machine(Machine(stale), IRQ_VTIMER))
    /\ UNCHANGED <<initialized, ids, refused, waited, sysvars, heapvars, consolevars>>

NextPreempt ==
    \/ DoInit
    \/ DoEnable
    \/ \E p \in PreemptPriorities :
          NEXT_PID <= MaxSpawnPreempt /\ DoSpawnNamed(p, "ok")
    \/ BeginSchedule
    \/ \E stale \in StaleOutcomes : Step(stale)
    \/ \E stale \in StaleOutcomes : TimerIrq(stale)

SpecPreempt == Init /\ [][NextPreempt]_vars

\* ------------------------------------------------------------------------
\* Specification: user tasks making system calls, a kernel thread calling
\* schedule(), and the timer interrupt; every handler runs to its end
\* ------------------------------------------------------------------------
\* Spawns allowed in this specification.
MaxSpawnSys == 2
\* A user program makes no further call beyond this offset.
MaxOff == 8
\* System call numbers with no arm of their own.
UnknownIds == {7, 99}
SysIds == {SYS_PRINT, SYS_GETPID, SYS_YIELD, SYS_SLEEP} \cup UnknownIds
\* A non-null user pointer.
BufPtr == 4096
\* What the caller has in x0 and x1 when it makes the call.
X0Values == {0, BufPtr}
X1Values == 0 .. 2
\* What the memory at BufPtr holds: "hi", "h\n", U+00E9, 'h' and a byte
\* that occurs in no UTF-8 sequence.
PrintBuffers == {<<104, 105>>, <<104, LF>>, <<195, 169>>, <<104, 255>>}

\* context::enter_user_mode(entry, stack), called by user_trampoline (line
\* 270): the exception link register it programs before its exception
\* return, `task` being the task whose program is entered.
enter_user_mode(task) == Addr(task, 0)

\* The preferred return address of an SVC executed at address a: the
\* instruction after it.
svc_preferred_return(a) == Addr(a.owner, a.off + 4)

\* handle_sync_exception, lines 75-79: mrs, add 4, msr.
advance_elr(elr) == Addr(elr.owner, elr.off + 4)

\* The exception link register, the EL0 program counter and the pending
\* calls after the code that follows the machine h: h is the machine just
\* before the exception return (or the return to kernel-thread code), elr
\* the link register left by the exception entry that began the step,
\* calls the pending calls, caller the slot whose call began the step and
\* io what that call printed.
\*   - the step switched to a task that had never run: user_trampoline
\*     enters its program;
\*   - h is inside the SVC handler of the current task: kernel_syscall_handler
\*     has returned, the link register is advanced, the frame is restored;
\*   - h is inside the interrupt handler: the frame is restored;
\*   - otherwise kernel-thread code continues.
Lands(h, elr, calls, caller, io) ==
    LET t == h.CURRENT_TASK
        first == h.ev.switched /\ TASKS[h.ev.to].stack_top.kind = "uframe"
        adv == advance_elr(elr)
    IN IF first
       THEN /\ ELR_EL1' = enter_user_mode(h.ev.to)
            /\ el0_pc' = enter_user_mode(h.ev.to)
            /\ call' = calls
            /\ returned' = NoRet
       ELSE IF h.cpu.top.pc = "svc"
       THEN /\ ELR_EL1' = adv
            /\ el0_pc' = adv
            /\ call' = [calls EXCEPT ![t] = NoCall]
            /\ returned' = [valid |-> TRUE, task |-> t, id |-> calls[t].id,
                            x0 |-> calls[t].arg0,
                            result |-> syscall_result(h, calls[t].id),
                            pc |-> adv, at |-> calls[t].at,
                            io |-> IF t = caller THEN io ELSE NoIo]
       ELSE IF h.cpu.top.pc = "irq"
       THEN /\ ELR_EL1' = elr
            /\ el0_pc' = IF h.cpu.under.pc = "user" THEN elr ELSE el0_pc
            /\ call' = calls
            /\ returned' = NoRet
       ELSE /\ ELR_EL1' = elr
            /\ el0_pc' = el0_pc
            /\ call' = calls
            /\ returned' = NoRet

InUser == initialized /\ cpu.top.pc = "user"

\* The task at EL0 executes SVC with `id` in x8, arg0 in x0, arg1 in x1,
\* the memory at BufPtr holding buf.
SysSyscall(id, arg0, arg1, buf) ==
    /\ InUser
    /\ el0_pc.off <= MaxOff
    /\ LET h == kernel_syscall_handler(svc_enter(World), id)
           mine == [active |-> TRUE, id |-> id, arg0 |-> arg0, at |-> el0_pc]
           io == IF id = SYS_PRINT
                 THEN [arg1 |-> arg1, buf |-> buf,
                       out |-> sys_print(buf, arg0, arg1)]
                 ELSE NoIo
       IN /\ Becomes(ExceptionReturn(h))
          /\ Lands(h, svc_preferred_return(el0_pc),
                   [call EXCEPT ![CURRENT_TASK] = mine], CURRENT_TASK, io)
    /\ UNCHANGED <<initialized, ids, refused, waited, heapvars, consolevars>>

\* A kernel thread calls schedule().
SysSchedule ==
    /\ InTask
    /\ LET h == schedule(World, "task")
       IN /\ Becomes(ExceptionReturn(h))
          /\ Lands(h, ELR_EL1, call, MAX_TASKS, NoIo)
    /\ UNCHANGED <<initialized, ids, refused, waited, heapvars, consolevars>>

\* The timer interrupt, taken at EL0 or in kernel-thread code.
SysTimer ==
    /\ IrqOpen
    /\ LET h == tick(irq_enter(World))
       IN /\ Becomes(ExceptionReturn(h))
          /\ Lands(h, IF cpu.top.pc = "user" THEN el0_pc ELSE KernelText,
                   call, MAX_TASKS, NoIo)
    /\ UNCHANGED <<initialized, ids, refused, waited, heapvars, consolevars>>

NextSys ==
    \/ DoInit
    \/ DoEnable
    \/ NEXT_PID <= MaxSpawnSys /\ DoSpawnUser("ok")
    \/ SysSchedule
    \/ \E id \in SysIds \ {SYS_PRINT}, arg0 \in X0Values :
          SysSyscall(id, arg0, 0, <<>>)
    \/ \E arg0 \in X0Values, arg1 \in X1Values, buf \in PrintBuffers :
          SysSyscall(SYS_PRINT, arg0, arg1, buf)
    \/ SysTimer

SpecSys == Init /\ [][NextSys]_vars

\* ------------------------------------------------------------------------
\* Specification: a user task allocating from and freeing to the kernel heap
\* ------------------------------------------------------------------------
\* Spawns allowed in this specification.
MaxSpawnHeap == 1
\* A user program makes no further heap call beyond this offset.
MaxOffHeap == 16
\* What the caller passes as size (32 bytes, more than a block holds,
\* usize::MAX) and as align (0, 3: no powers of two; 8).
SizeValues == {32, 128, U64_MAX}
AlignValues == {0, 3, 8}
\* What register x3 holds when handle_sync_exception calls
\* kernel_syscall_handler(id, arg0, arg1): the declaration it calls through
\* (exception.rs, lines 12-14) has three parameters, the function (main.rs,
\* line 125) reads a fourth.
X3Values == {0, 3, 8}
DeallocOutcomes == {"freed", "corrupt"}

\* handle_sync_exception, lines 75-80, after an arm that switches nothing.
HeapCallReturns ==
    /\ ELR_EL1' = advance_elr(svc_preferred_return(el0_pc))
    /\ el0_pc' = advance_elr(svc_preferred_return(el0_pc))
    /\ UNCHANGED <<call, returned>>

\* The task at EL0 executes SVC with 5 in x8, size in x0, align in x1.
SysAlloc(size, align) ==
    /\ InUser
    /\ el0_pc.off <= MaxOffHeap
    /\ LET h == kernel_syscall_handler(svc_enter(World), SYS_ALLOC)
           r == sys_alloc(heap, size, align)
       IN /\ Becomes(ExceptionReturn(h))
          /\ heap' = r.heap
          /\ heapcall' = [valid |-> TRUE, id |-> SYS_ALLOC, x0 |-> size,
                          x1 |-> align, x2 |-> 0, arg2 |-> 0,
                          result |-> r.result, before |-> heap]
    /\ HeapCallReturns
    /\ UNCHANGED <<initialized, ids, refused, waited, consolevars>>

\* The task at EL0 executes SVC with 6 in x8, ptr in x0, size in x1, align
\* in x2; the handler is called with tf.x8, tf.x0, tf.x1 and finds x3 as its
\* fourth argument.
SysDealloc(ptr, size, align, x3, ub) ==
    /\ InUser
    /\ el0_pc.off <= MaxOffHeap
    /\ LET h == kernel_syscall_handler(svc_enter(World), SYS_DEALLOC)
           r == sys_dealloc(heap, ptr, size, x3, ub)
       IN /\ Becomes(ExceptionReturn(h))
          /\ heap' = r.heap
          /\ heapcall' = [valid |-> TRUE, id |-> SYS_DEALLOC, x0 |-> ptr,
                          x1 |-> size, x2 |-> align, arg2 |-> x3,
                          result |-> r.result, before |-> heap]
    /\ HeapCallReturns
    /\ UNCHANGED <<initialized, ids, refused, waited, consolevars>>

NextHeap ==
    \/ DoInit
    \/ DoEnable
    \/ NEXT_PID <= MaxSpawnHeap /\ DoSpawnUser("ok")
    \/ SysSchedule
    \/ \E size \in SizeValues, align \in AlignValues : SysAlloc(size, align)
    \/ \E ptr \in BlockAddrs, size \in SizeValues, align \in AlignValues,
          x3 \in X3Values, ub \in DeallocOutcomes :
          SysDealloc(ptr, size, align, x3, ub)

SpecHeap == Init /\ [][NextHeap]_vars

\* ------------------------------------------------------------------------
\* Specification: spawn_named executed statement by statement, with the
\* timer interrupt taken between its statements
\* ------------------------------------------------------------------------
\* Spawns allowed in this specification.
MaxSpawnStep == 3
\* The priority given to spawn_named in this specification.
StepPriorities == {Normal}

\* The statements of spawn_named that read or write the scheduler's statics.
SpawnPcs == {"sp_slot", "sp_id", "sp_pid", "sp_f_id", "sp_f_sp", "sp_f_state",
             "sp_f_prio", "sp_f_slices", "sp_count"}
\* Those at which the slot is being filled and TASK_COUNT not yet written.
BuildPcs == SpawnPcs \ {"sp_slot"}

\* A position inside spawn_named: its locals slot and id travel with the
\* position (fields cur and best), so that a saved context keeps them.
SpawnPos(pc, slot, id) == Pos(pc, slot, id, "task")

\* One statement of spawn_named (lines 139-182).  p is the priority
\* argument.  TASK_COUNT += 1 is a plain access to a static mut shared with
\* the interrupt handler: reload tells whether the build reads TASK_COUNT
\* again for it or reuses the value it read into slot.
spawn_step(w, p, reload) ==
    LET pc == w.cpu.top.pc
        slot == w.cpu.top.cur
        id == w.cpu.top.best
    IN CASE pc = "sp_slot" ->
              IF w.TASK_COUNT >= MAX_TASKS
              THEN [w EXCEPT !.cpu.top = At("task")]
              ELSE [w EXCEPT !.cpu.top = SpawnPos("sp_id", w.TASK_COUNT, 0)]
         [] pc = "sp_id" ->
              [w EXCEPT !.cpu.top = SpawnPos("sp_pid", slot, w.NEXT_PID)]
         [] pc = "sp_pid" ->
              [w EXCEPT !.NEXT_PID = id + 1,
                        !.cpu.top.pc = "sp_f_id"]
         [] pc = "sp_f_id" ->
              [w EXCEPT !.TASKS[slot].id = id,
                        !.cpu.top.pc = "sp_f_sp"]
         [] pc = "sp_f_sp" ->
              [w EXCEPT !.TASKS[slot].stack_top = Ctx("kframe", slot, NoPos, NoPos),
                        !.cpu.top.pc = "sp_f_state"]
         [] pc = "sp_f_state" ->
              [w EXCEPT !.TASKS[slot].state = "Ready",
                        !.cpu.top.pc = "sp_f_prio"]
         [] pc = "sp_f_prio" ->
              [w EXCEPT !.TASKS[slot].priority = p,
                        !.cpu.top.pc = "sp_f_slices"]
         [] pc = "sp_f_slices" ->
              [w EXCEPT !.TASKS = reset_time_slice(w.TASKS, slot),
                        !.cpu.top.pc = "sp_count"]
         [] pc = "sp_count" ->
              [w EXCEPT !.TASK_COUNT = IF reload THEN w.TASK_COUNT + 1
                                       ELSE slot + 1,
                        !.cpu.top = At("task")]

InSpawn == initialized /\ cpu.top.pc \in SpawnPcs

\* Task code calls spawn_named.
BeginSpawn ==
    /\ InTask
    /\ NEXT_PID <= MaxSpawnStep /\ TASK_COUNT <= MaxSpawnStep
    /\ Len(ids) < MaxSpawnStep
    /\ Becomes([World EXCEPT !.cpu.top = SpawnPos("sp_slot", 0, 0)])
    /\ UNCHANGED <<initialized, ids, refused, waited, sysvars, heapvars, consolevars>>

\* The next statement of the spawn_named in progress; the spawn that
\* completes records the identifier it gave.
SpawnStep(p, reload) ==
    /\ InSpawn
    /\ Becomes(spawn_step(World, p, reload))
    /\ ids' = IF cpu.top.pc = "sp_count" THEN Append(ids, cpu.top.best)
              ELSE ids
    /\ UNCHANGED <<initialized, refused, waited, sysvars, heapvars, consolevars>>

NextSpawn ==
    \/ DoInit
    \/ DoEnable
    \/ BeginSpawn
    \/ \E p \in StepPriorities, reload \in BOOLEAN : SpawnStep(p, reload)
    \/ \E stale \in StaleOutcomes : TimerIrq(stale)

SpecSpawn == Init /\ [][NextSpawn]_vars

\* ------------------------------------------------------------------------
\* Specification: kernel tasks printing with interrupts enabled, and the
\* handlers that print with interrupts masked
\* ------------------------------------------------------------------------
\* Further positions of the CPU:
\*   "print"  task code inside _print, holding the console lock (uart.rs,
\*            line 200: UART.lock().write_fmt(args))
\*   "spin"   handler code inside UART.lock(), the lock being held
\* Spawns allowed in this specification.
MaxSpawnConsole == 2
ConsolePriorities == {Normal}
\* The system calls whose arm prints: print (main.rs 127-143) and exit
\* (exit_current_task's diagnostic, sched/mod.rs 280).
PrintingSyscalls == {SYS_PRINT, SYS_EXIT}

\* spin::Mutex::lock() called by an exception handler: the handler has
\* interrupts masked; when the lock is held it spins.
lock_in_handler(w) ==
    [w EXCEPT !.cpu = [top |-> At("spin"), under |-> w.cpu.top],
              !.irq_masked = TRUE]

\* A kernel task calls print! or println!: _print takes the lock.
PrintBegin ==
    /\ InTask /\ ~uart_lock.held
    /\ Becomes([World EXCEPT !.cpu.top = At("print")])
    /\ uart_lock' = [held |-> TRUE, by |-> sp_owner]
    /\ UNCHANGED <<initialized, ids, refused, waited, sysvars, heapvars>>

\* _print returns: the guard is dropped.
PrintEnd ==
    /\ initialized /\ cpu.top.pc = "print"
    /\ Becomes([World EXCEPT !.cpu.top = At("task")])
    /\ uart_lock' = FreeLock
    /\ UNCHANGED <<initialized, ids, refused, waited, sysvars, heapvars>>

\* An interrupt.  The arm of an unknown identifier prints; the timer's arm
\* runs tick(), which may switch.
ConsoleIrq(iar, stale) ==
    /\ IrqOpen
    /\ IF iar % 1024 \notin {IRQ_VTIMER, IRQ_PTIMER, IRQ_UART, IRQ_SPURIOUS}
          /\ uart_lock.held
       THEN Becomes(lock_in_handler(World))
       ELSE Becomes(irq_machine(Machine(stale), iar))
    /\ UNCHANGED <<initialized, ids, refused, waited, sysvars, heapvars,
                   consolevars>>

\* A user task executes SVC for a call whose arm prints.
ConsoleSyscall(id) ==
    /\ InUser
    /\ IF uart_lock.held
       THEN Becomes(lock_in_handler(World))
       ELSE Becomes(svc_machine(World, id))
    /\ UNCHANGED <<initialized, ids, refused, waited, sysvars, heapvars,
                   consolevars>>

NextConsole ==
    \/ DoInit
    \/ DoEnable
    \/ \E p \in ConsolePriorities :
          NEXT_PID <= MaxSpawnConsole /\ DoSpawnNamed(p, "ok")
    \/ NEXT_PID <= MaxSpawnConsole /\ DoSpawnUser("ok")
    \/ PrintBegin
    \/ PrintEnd
    \/ \E iar \in IrqIds, stale \in StaleOutcomes : ConsoleIrq(iar, stale)
    \/ \E id \in PrintingSyscalls : ConsoleSyscall(id)

SpecConsole == Init /\ [][NextConsole]_vars

\* ------------------------------------------------------------------------
\* Properties
\* ------------------------------------------------------------------------
RunningSlots == {i \in Slots : TASKS[i].state = "Running"}

\* C1: in every state reached by init, spawn_named, spawn_user, enable,
\* schedule, tick, block_current_task, wake_task and exit_current_task, once
\* the operation has returned to task code or the CPU has halted, exactly one
\* slot of the task table has state Running.
C1_ExactlyOneRunning ==
    initialized => Cardinality(RunningSlots) = 1

\* C2: whenever a scheduling decision makes another task the current one,
\* that task was Ready when it was selected and no Ready slot had a strictly
\* higher priority.
C2_SwitchesToHighestReady ==
    [][CURRENT_TASK' # CURRENT_TASK =>
          /\ TASKS[CURRENT_TASK'].state = "Ready"
          /\ \A j \in 0 .. (TASK_COUNT - 1) :
                TASKS[j].state = "Ready" =>
                    TASKS[j].priority <= TASKS[CURRENT_TASK'].priority]_vars

\* C3: a slot that is Dead (its task called exit_current_task) is Dead in
\* every later state and is never made the current task again.
C3_DeadIsForever ==
    [][\A i \in Slots :
          TASKS[i].state = "Dead" =>
              /\ TASKS'[i].state = "Dead"
              /\ (CURRENT_TASK' = i => CURRENT_TASK = i)]_vars

\* C4: after init and any sequence of spawns within the table's capacity,
\* task_count() is the number of spawns that returned plus one, and the
\* identifiers they assigned, in spawn order, are strictly increasing (hence
\* pairwise distinct) and none is the idle task's identifier 0; the k-th
\* spawn's identifier is the one stored in slot k.
C4_CountAndIdentifiers ==
    initialized =>
        /\ TASK_COUNT = Len(ids) + 1
        /\ \A k \in 1 .. Len(ids) : ids[k] # 0 /\ TASKS[k].id = ids[k]
        /\ \A k, l \in 1 .. Len(ids) : k < l => ids[k] < ids[l]

\* C4 witness: the table has been filled to its capacity by fifteen spawns.
C4_TableFilled ==
    TASK_COUNT = MAX_TASKS /\ Len(ids) = MAX_TASKS - 1

\* The slice budgets the claim C6 states.
StatedSlices(p) ==
    CASE p = Idle -> 1
      [] p = Low -> 2
      [] p = Normal -> 4
      [] p = High -> 8
      [] p = RealTime -> 16

\* The machine after n consecutive timer interrupts, each taken in task code.
RECURSIVE Ticks(_, _)
Ticks(w, n) ==
    IF n = 0 THEN w ELSE irq_machine(Ticks(w, n - 1), IRQ_VTIMER)

\* A slot other than the current one that the scan can select.
OtherReady ==
    \E j \in 0 .. (TASK_COUNT - 1) :
        /\ j # CURRENT_TASK
        /\ TASKS[j].state = "Ready"
        /\ ~(j = 0 /\ TASKS[0].stack_top.kind = "null")

\* C6: when the scheduler has just switched to a task of priority p and timer
\* interrupts can be taken, the first StatedSlices(p) - 1 ticks leave the
\* current task in place without running the selection, the StatedSlices(p)-th
\* tick runs the selection, and it switches to another task if another Ready
\* task exists.
C6_SliceBudget ==
    fresh /\ IrqOpen =>
        LET n == StatedSlices(TASKS[CURRENT_TASK].priority)
            last == Ticks(World, n)
        IN /\ \A k \in 1 .. (n - 1) :
                 /\ Ticks(World, k).CURRENT_TASK = CURRENT_TASK
                 /\ ~Ticks(World, k).ev.selected
           /\ last.ev.selected
           /\ OtherReady => last.ev.switched /\ last.CURRENT_TASK # CURRENT_TASK

\* C6 witness: a RealTime task has just been switched to while another task
\* is Ready.
C6_FreshRealTime ==
    /\ fresh /\ IrqOpen /\ OtherReady
    /\ TASKS[CURRENT_TASK].priority = RealTime

\* Positions in a handler's event sequence where `what` was done.
Where(e, what) == {n \in 1 .. Len(e) : e[n].what = what}

\* C7: for every timer interrupt that can be taken, the handler rearms the
\* timer exactly once and signals end-of-interrupt exactly once, with the
\* acknowledged value, and both come before the call of kernel_tick, whether
\* or not kernel_tick returns to the handler.
C7_CleanupBeforeTick ==
    IrqOpen =>
        \A iar \in {IRQ_VTIMER, IRQ_PTIMER} :
            LET e == irq_events(World, iar)
            IN /\ Cardinality(Where(e, "set_next_tick")) = 1
               /\ Cardinality(Where(e, "end_interrupt")) = 1
               /\ Cardinality(Where(e, "kernel_tick")) = 1
               /\ \A n \in Where(e, "end_interrupt") : e[n].arg = iar
               /\ \A n \in Where(e, "set_next_tick") \cup Where(e, "end_interrupt"),
                     t \in Where(e, "kernel_tick") : n < t

\* C7 witness: a timer interrupt can be taken whose tick switches to another
\* task, so that kernel_tick does not return to this handler invocation.
C7_TickSwitchesAway ==
    IrqOpen /\ tick(irq_enter(World)).ev.switched

\* C9: task_count never exceeds 16, and with 16 tasks in the table
\* spawn_named and spawn_user leave the whole machine as it was: task_count,
\* NEXT_PID, the current index and every slot.
C9_FullTableSpawnIsNoOp ==
    /\ TASK_COUNT <= MAX_TASKS
    /\ InTask /\ TASK_COUNT = MAX_TASKS =>
          \A a \in AllocOutcomes :
              /\ spawn_user(World, a) = World
              /\ \A p \in Priority : spawn_named(World, p, a) = World

\* C9 witness: a spawn has just been refused by a full table.
C9_SpawnRefused ==
    refused /\ TASK_COUNT = MAX_TASKS /\ NEXT_PID = MAX_TASKS

\* C10: a spawn whose stack allocation returned null inserts nothing, leaves
\* task_count as it was and leaves the caller running.
C10_NullAllocationAborts ==
    InTask /\ TASK_COUNT < MAX_TASKS =>
        \A a \in {"null", "fault"} :
            LET n == spawn_named(World, Normal, a)
                u == spawn_user(World, a)
            IN /\ n.TASK_COUNT = TASK_COUNT /\ n.TASKS = TASKS
               /\ u.TASK_COUNT = TASK_COUNT /\ u.TASKS = TASKS
               /\ n.cpu.top.pc = "task" /\ u.cpu.top.pc = "task"

\* A task other than i with i's priority is in the table.
HasPeer(i) ==
    \E j \in 0 .. (TASK_COUNT - 1) :
        j # i /\ TASKS[j].priority = TASKS[i].priority

\* The tasks whose priority is at least that of task i, i included.
Rivals(i) ==
    {j \in 0 .. (TASK_COUNT - 1) : TASKS[j].priority >= TASKS[i].priority}

\* The number of i's equal-or-higher-priority peers times the largest of
\* their slice budgets.
WaitBound(i) ==
    LET most == CHOOSE m \in {time_slices(TASKS[j].priority) : j \in Rivals(i)} :
                    \A j \in Rivals(i) : time_slices(TASKS[j].priority) <= m
    IN Cardinality(Rivals(i)) * most

\* C5: with the scheduler enabled and timer ticks arriving, a task that stays
\* runnable and has a peer of its own priority never waits for more ticks
\* than the number of its equal-or-higher-priority peers times their slice
\* budgets before it runs again, whatever other tasks are runnable.
C5_BoundedWait ==
    \A i \in 1 .. (TASK_COUNT - 1) :
        SCHEDULER_ENABLED /\ HasPeer(i) => waited[i] <= WaitBound(i)

\* C8: in task code, whatever timer interrupts were taken inside schedule()
\* calls, at most one slot is Running, a Running slot is the current one, the
\* CPU runs on the current task's stack, and the saved-context pointer of
\* every suspended task points into that task's own stack.
C8_PreemptedScheduleIsSafe ==
    InTask =>
        /\ Cardinality(RunningSlots) <= 1
        /\ RunningSlots \subseteq {CURRENT_TASK}
        /\ sp_owner = CURRENT_TASK
        /\ \A i \in 0 .. (TASK_COUNT - 1) :
              i # CURRENT_TASK /\ TASKS[i].stack_top.kind # "null" =>
                  TASKS[i].stack_top.owner = i

\* C11: a task that has called block_current_task and has not been woken
\* (its slot is Blocked) is not the one executing task code, in every
\* configuration of the scheduler.
C11_BlockedTaskDoesNotRun ==
    initialized /\ cpu.top.pc \in {"task", "user"} =>
        TASKS[CURRENT_TASK].state # "Blocked"

\* The identifiers passed to wake_task: those of the tasks and one no task has.
WakePids == 0 .. (MaxSpawn + 1)

\* The slots wake_task(pid) changes in the current state.
Woken(pid) ==
    {i \in Slots : wake_task(World, pid).TASKS[i] # TASKS[i]}

\* C12: wake_task(pid) changes at most one slot, one whose id is pid and
\* whose state is Blocked, and only its state, to Ready; everything else in
\* the machine is as before and no switch is made; with no Blocked slot of
\* that id below TASK_COUNT it changes nothing.
C12_WakeFrame ==
    \A pid \in WakePids :
        LET w == wake_task(World, pid)
        IN /\ [w EXCEPT !.TASKS = TASKS] = World
           /\ Cardinality(Woken(pid)) <= 1
           /\ \A i \in Woken(pid) :
                 /\ TASKS[i].id = pid /\ TASKS[i].state = "Blocked"
                 /\ w.TASKS[i] = [TASKS[i] EXCEPT !.state = "Ready"]
           /\ (\A i \in 0 .. (TASK_COUNT - 1) :
                  ~(TASKS[i].id = pid /\ TASKS[i].state = "Blocked")) => w = World

\* C12 witness: task code is running and a wake_task call finds a Blocked
\* slot with the identifier it is given.
C12_WakeFindsBlocked ==
    InTask /\ \E pid \in WakePids : Woken(pid) # {}


C14_CallerSeesResult ==
    returned.valid => returned.x0 = returned.result


\* C15: the return address that handle_sync_exception advances and the
\* exception return uses is the caller's own: the link register value of
\* the caller's SVC, advanced once, whatever other tasks ran and whatever
\* exceptions they took while the caller was switched out.
C15_ReturnsToOwnAddress ==
    returned.valid =>
        returned.pc = advance_elr(svc_preferred_return(returned.at))


Printed == returned.valid /\ returned.id = SYS_PRINT
PrintedSlice == SubSeq(returned.io.buf, 1, returned.io.arg1)
PrintedSome == returned.x0 # 0 /\ returned.io.arg1 > 0

\* The line feeds among the first k bytes of s.
LfCount(s, k) == Cardinality({j \in 1 .. k : s[j] = LF})

Lifecycle ==
    {<<"Unused", "Ready">>, <<"Ready", "Running">>, <<"Running", "Ready">>,
     <<"Running", "Blocked">>, <<"Running", "Dead">>, <<"Blocked", "Ready">>}

\* C17: once the scheduler is initialised, an operation changes a slot's
\* state only along the lifecycle: Unused to Ready, Ready to Running,
\* Running to Ready, Running to Blocked, Running to Dead, Blocked to Ready;
\* so no Blocked or Dead slot becomes Running and a Dead slot stays Dead.
C17_LifecycleOnly ==
    [][initialized =>
          \A i \in Slots :
             \/ TASKS'[i].state = TASKS[i].state
             \/ <<TASKS[i].state, TASKS'[i].state>> \in Lifecycle]_vars


\* Values Gic::acknowledge can return for the identifiers handled: the
\* identifier alone, or with a source-CPU bit above its ten bits.
AckValues == IrqIds \cup {id + 1024 : id \in IrqIds}

SwitchedBack(h) ==
    /\ h.ev.switched
    /\ TASKS[h.ev.to].stack_top.kind \in {"saved", "stale"}

\* The task switched into continues with the frames, on the stack, that it
\* stored when it was last switched away from.
RoundTrip(h) ==
    SwitchedBack(h) =>
        LET c == h.TASKS[h.ev.to].stack_top
        IN /\ h.cpu = [top |-> c.top, under |-> c.under]
           /\ h.sp_owner = c.owner

\* C16: whenever schedule(), called from task code, from block or exit, or
\* from the timer tick, switches back into a task, that task resumes at the
\* return address and with the preserved context it stored at its last
\* switch away, whatever ran in between.
C16_SwitchRoundTrip ==
    \A stale \in StaleOutcomes :
        /\ InTask =>
              /\ RoundTrip(schedule(Machine(stale), "task"))
              /\ RoundTrip(block_current_task(Machine(stale)))
              /\ RoundTrip(exit_current_task(Machine(stale)))
        /\ IrqOpen => RoundTrip(tick(irq_enter(Machine(stale))))


\* The scheduler's own state in the machine w is what it is now, and no
\* context switch was made on the way to w.
SchedulerUntouched(w) ==
    /\ w.TASKS = TASKS
    /\ w.TASK_COUNT = TASK_COUNT
    /\ w.CURRENT_TASK = CURRENT_TASK
    /\ w.NEXT_PID = NEXT_PID
    /\ w.SCHEDULER_ENABLED = SCHEDULER_ENABLED
    /\ w.sp_owner = sp_owner
    /\ ~w.ev.switched

\* C27: with fewer than two tasks in the table or the scheduler not
\* enabled, schedule() and tick() change nothing: no task state, slice
\* counter (tick does not decrement), saved-context pointer or current
\* index, no context switch, and both return to their caller.
C27_DisabledIsNoOp ==
    (initialized /\ (TASK_COUNT < 2 \/ ~SCHEDULER_ENABLED)) =>
        /\ InTask =>
              /\ SchedulerUntouched(schedule(World, "task"))
              /\ schedule(World, "task").cpu = cpu
        /\ IrqOpen =>
              /\ SchedulerUntouched(tick(irq_enter(World)))
              /\ tick(irq_enter(World)).cpu = irq_enter(World).cpu
              /\ irq_machine(World, IRQ_VTIMER).cpu = cpu

\* C27 witness: the scheduler is not enabled while another task is Ready
\* and the current task has slices left to charge.
C27_DisabledWithReadyTask ==
    /\ InTask /\ IrqOpen /\ ~SCHEDULER_ENABLED /\ TASK_COUNT >= 2
    /\ OtherReady
    /\ TASKS[CURRENT_TASK].remaining_slices > 0

\* No slot of the table other than the current one is Ready.
NoOtherReady ==
    \A j \in 0 .. (TASK_COUNT - 1) :
        j # CURRENT_TASK => TASKS[j].state # "Ready"

\* C28: when schedule() runs its scan (two tasks or more, scheduler
\* enabled), no slot but the current one is Ready and the current task is
\* Running, it makes no switch: every task's state, the current index and
\* the saved contexts are unchanged, the current task's remaining_slices
\* becomes time_slices(its priority), nothing else in the table changes,
\* and schedule() returns to its caller.
C28_StayOnCurrent ==
    (InTask /\ SCHEDULER_ENABLED /\ TASK_COUNT >= 2 /\ NoOtherReady
       /\ TASKS[CURRENT_TASK].state = "Running") =>
        LET w == schedule(World, "task")
        IN /\ ~w.ev.switched
           /\ w.CURRENT_TASK = CURRENT_TASK
           /\ w.TASK_COUNT = TASK_COUNT
           /\ w.cpu = cpu
           /\ w.sp_owner = sp_owner
           /\ w.TASKS[CURRENT_TASK].remaining_slices =
                 StatedSlices(TASKS[CURRENT_TASK].priority)
           /\ w.TASKS = [TASKS EXCEPT ![CURRENT_TASK].remaining_slices =
                            StatedSlices(TASKS[CURRENT_TASK].priority)]

\* C28 witness: schedule() can be called by a Running task that has used
\* part of its slice while every other task is Blocked or Dead.
C28_AloneWithUsedSlice ==
    /\ InTask /\ SCHEDULER_ENABLED /\ TASK_COUNT >= 2 /\ NoOtherReady
    /\ TASKS[CURRENT_TASK].state = "Running"
    /\ TASKS[CURRENT_TASK].remaining_slices <
          StatedSlices(TASKS[CURRENT_TASK].priority)


\* The slots schedule()'s caller competes with: Ready, in the table, not
\* the current one.
Candidates ==
    {j \in 0 .. (TASK_COUNT - 1) : j # CURRENT_TASK /\ TASKS[j].state = "Ready"}

\* How far after the current index slot j is reached, scanning in table
\* order and wrapping around.
ScanDistance(j) == (j - CURRENT_TASK + TASK_COUNT) % TASK_COUNT

\* The candidate of highest priority that the scan reaches first.
FirstBest ==
    CHOOSE j \in Candidates :
        \A k \in Candidates :
            \/ TASKS[k].priority < TASKS[j].priority
            \/ (TASKS[k].priority = TASKS[j].priority
                  /\ ScanDistance(j) <= ScanDistance(k))

\* C24: when schedule() runs its scan and some slot other than the current
\* one is Ready, the task it makes current is the Ready slot of highest
\* priority, and among several of that priority the one reached first
\* scanning from just after the current index and wrapping around; the
\* current slot is never the one selected.
C24_TieBreak ==
    (InTask /\ SCHEDULER_ENABLED /\ TASK_COUNT >= 2) =>
        LET w == schedule(World, "task")
            r == Scan(TASKS, TASK_COUNT, CURRENT_TASK)
        IN /\ r.found => r.best_idx # CURRENT_TASK
           /\ Candidates # {} =>
                 /\ r.found /\ r.best_idx = FirstBest
                 /\ w.ev.switched
                 /\ w.CURRENT_TASK = FirstBest
                 /\ w.CURRENT_TASK # CURRENT_TASK


\* C24 witness: schedule() can be called when two Ready slots share the
\* highest priority, one before the current index and one after it, so
\* that the scan's wrap-around decides.
C24_TieAcrossCurrent ==
    /\ InTask /\ SCHEDULER_ENABLED /\ TASK_COUNT >= 2
    /\ \E j, k \in Candidates :
          /\ j < CURRENT_TASK /\ CURRENT_TASK < k
          /\ TASKS[j].priority = TASKS[k].priority
          /\ FirstBest = k


\* C25: a task that has just been switched in, on the normal path or on the
\* fall-back to idle, has remaining_slices = time_slices(its priority);
\* and while a task runs its own code its remaining_slices lies between 1
\* and time_slices(its priority).
C25_FullSliceOnSelection ==
    initialized =>
        LET t == TASKS[CURRENT_TASK]
        IN /\ fresh => t.remaining_slices = StatedSlices(t.priority)
           /\ cpu.top.pc \in {"task", "user"} =>
                 /\ 1 <= t.remaining_slices
                 /\ t.remaining_slices <= StatedSlices(t.priority)


\* The operation that left the machine h selected a Ready task by the scan
\* and switched back into it: the task had been switched out by schedule()
\* before.
SelectedAgain(h) ==
    /\ h.ev.switched /\ h.ev.path = "normal"
    /\ TASKS[h.ev.to].stack_top.kind = "saved"

\* The task switched into is back in the code that called schedule(): task
\* code, or a handler about to return to the code it interrupted.
BackInCaller(h) ==
    SelectedAgain(h) => h.cpu.top.pc \in {"task", "irq", "svc"}

\* C26: a task that schedule() switched out, on the normal path or on the
\* fall-back to idle, and that is Ready again and selected, resumes as if
\* schedule() had returned to its caller; a task that blocked while nothing
\* else was Ready and was woken later goes on after block_current_task and
\* is not halted.
C26_ResumesInCaller ==
    /\ InTask =>
          /\ BackInCaller(schedule(World, "task"))
          /\ BackInCaller(block_current_task(World))
          /\ BackInCaller(exit_current_task(World))
    /\ IrqOpen => BackInCaller(tick(irq_enter(World)))


\* No slot of the table is Ready.
NoneReady == \A j \in 0 .. (TASK_COUNT - 1) : TASKS[j].state # "Ready"

\* block_current_task or exit_current_task, called where schedule() scans
\* and finds nothing, left the machine h: the caller is not back in its own
\* code, and either slot 0, whose saved context was initialised, is the
\* current Running task, or the kernel is in the FATAL halt.
FellBack(h) ==
    /\ h.ev.switched \/ h.cpu.top.pc = "fatal"
    /\ \/ /\ TASKS[0].stack_top.kind # "null"
          /\ h.CURRENT_TASK = 0 /\ h.TASKS[0].state = "Running"
       \/ h.cpu.top.pc = "fatal"

\* C23: when schedule() finds no Ready slot and the current task is Blocked
\* or Dead, it never returns to its caller: slot 0 becomes the current
\* Running task (only if its saved context is initialised) or the kernel
\* halts; and whenever the kernel is in that halt, no slot of the table is
\* Ready or Running.
C23_FallBackOrHalt ==
    /\ (InTask /\ SCHEDULER_ENABLED /\ TASK_COUNT >= 2 /\ NoOtherReady) =>
          \A stale \in StaleOutcomes :
              /\ FellBack(block_current_task(Machine(stale)))
              /\ FellBack(exit_current_task(Machine(stale)))
    /\ (initialized /\ cpu.top.pc = "fatal") =>
          \A j \in 0 .. (TASK_COUNT - 1) :
              TASKS[j].state \notin {"Ready", "Running"}


\* The switch made on the way to the machine h was given as incoming value
\* the saved-context pointer that the task it switched to has now (next_sp
\* is read before context_switch stores anything), and that value is not
\* zero; when the task is slot 0 the value is one a switch away from it
\* stored.
IncomingValid(h) ==
    h.ev.switched =>
        /\ TASKS[h.ev.to].stack_top.kind # "null"
        /\ h.ev.to = 0 => TASKS[0].stack_top.kind \in {"saved", "stale"}

\* C29: every call of context_switch, from schedule(), block_current_task(),
\* exit_current_task() or the timer's tick(), has a non-zero incoming
\* saved-context value, and slot 0 is switched to only after a switch away
\* from it has stored its context.
C29_NeverSwitchIntoZero ==
    /\ (InTask /\ SCHEDULER_ENABLED) =>
          /\ IncomingValid(schedule(World, "task"))
          /\ \A stale \in StaleOutcomes :
                /\ IncomingValid(block_current_task(Machine(stale)))
                /\ IncomingValid(exit_current_task(Machine(stale)))
    /\ (initialized /\ IrqOpen) =>
          \A stale \in StaleOutcomes : IncomingValid(tick(irq_enter(Machine(stale))))
    /\ initialized =>
          \A j \in 1 .. (TASK_COUNT - 1) : TASKS[j].stack_top.kind # "null"

\* C29 witness: slot 0 has never been switched away from (its saved-context
\* pointer is zero) and schedule() switches, to another slot.
C29_SwitchWhileIdleUnsaved ==
    /\ InTask /\ SCHEDULER_ENABLED /\ TASK_COUNT >= 2
    /\ TASKS[0].stack_top.kind = "null"
    /\ schedule(World, "task").ev.switched
    /\ schedule(World, "task").ev.to # 0


\* The priorities of enum Priority.
AllPriorities == {Idle, Low, Normal, High, RealTime}

\* The machine h is the present one with one slot appended at the old
\* TASK_COUNT: Ready, of priority p, with the slice budget stated for p;
\* every other slot, the current index and the CPU are as they were.
Appended(h, p) ==
    /\ h.TASK_COUNT = TASK_COUNT + 1
    /\ h.TASKS[TASK_COUNT].state = "Ready"
    /\ h.TASKS[TASK_COUNT].priority = p
    /\ h.TASKS[TASK_COUNT].remaining_slices = StatedSlices(p)
    /\ \A j \in Slots : j # TASK_COUNT => h.TASKS[j] = TASKS[j]
    /\ h.CURRENT_TASK = CURRENT_TASK
    /\ h.cpu = cpu
    /\ ~h.ev.switched

\* C30: a spawn that succeeds (the table is not full, the stack allocation
\* gave a stack) appends one slot at the old TASK_COUNT, which is the first
\* unused index of the table: state Ready, for spawn_named the priority
\* given and remaining_slices = time_slices(priority), for spawn_user
\* priority Normal and remaining_slices = 4.
C30_SpawnAppendsReadySlot ==
    (InTask /\ TASK_COUNT < MAX_TASKS) =>
        /\ TASKS[TASK_COUNT].state = "Unused"
        /\ \A j \in 0 .. (TASK_COUNT - 1) : TASKS[j].state # "Unused"
        /\ \A p \in AllPriorities : Appended(spawn_named(World, p, "ok"), p)
        /\ Appended(spawn_user(World, "ok"), Normal)
        /\ spawn_user(World, "ok").TASKS[TASK_COUNT].remaining_slices = 4

\* C30 witness: a spawn can be called while the table holds a Dead slot and
\* a Blocked slot below TASK_COUNT.
C30_SpawnAfterExitAndBlock ==
    /\ InTask /\ TASK_COUNT < MAX_TASKS
    /\ \E j \in 0 .. (TASK_COUNT - 1) : TASKS[j].state = "Dead"
    /\ \E j \in 0 .. (TASK_COUNT - 1) : TASKS[j].state = "Blocked"


\* The machine h is the present one stopped in handle_sync_exception's
\* final loop with interrupts masked: the task table, the count, the
\* current index, the identifier counter and the enable flag are untouched
\* and no switch was made.
HaltedByFault(h) ==
    /\ SchedulerUntouched(h)
    /\ h.cpu.top.pc = "crash"
    /\ h.irq_masked

\* C22: a synchronous exception that is not a system call is fatal.  Taken
\* from task or user code it leaves the task table and the current index
\* as they are and ends in the handler's loop with interrupts masked; the
\* step that takes it (a spawn whose write through a null stack pointer
\* faults) changes no slot and no current index; and from the loop the
\* machine takes no further step.
C22_FaultIsFatal ==
    [][/\ (initialized /\ cpu.top.pc \in {"task", "user"}) =>
              HaltedByFault(sync_fault(World))
       /\ (cpu'.top.pc = "crash" /\ cpu'.under # NoPos) =>
              /\ TASKS' = TASKS /\ TASK_COUNT' = TASK_COUNT
              /\ CURRENT_TASK' = CURRENT_TASK /\ irq_masked'
       /\ cpu.top.pc # "crash"]_vars

\* C22 witness: the machine is in the handler's loop after a fault taken in
\* task code while another task was Ready and the scheduler enabled.
C22_HaltedWithReadyTask ==
    /\ initialized /\ cpu.top.pc = "crash" /\ cpu.under # NoPos
    /\ SCHEDULER_ENABLED /\ OtherReady


\* The last call was dealloc and it did what the caller's x0, x1, x2 ask
\* for: (x1, x2) a valid layout and x0 a live block of that layout: the
\* block is free, nothing else changed, the result is 0; (x1, x2) not a
\* valid layout: the heap is as before and the result is 1.
DeallocActsOnCallerArgs ==
    (heapcall.valid /\ heapcall.id = SYS_DEALLOC) =>
        LET layout == Layout_from_size_align(heapcall.x1, heapcall.x2)
            owned == heapcall.before[heapcall.x0] =
                        [state |-> "live", size |-> layout.size,
                         align |-> layout.align]
        IN /\ (layout.ok /\ owned) =>
                 /\ heapcall.result = 0
                 /\ heap = [heapcall.before EXCEPT ![heapcall.x0] = FreeBlock]
           /\ ~layout.ok =>
                 /\ heapcall.result = 1
                 /\ heap = heapcall.before

\* The last call was alloc with (x0, x1) not a valid layout, or a layout
\* no free block can hold: the result is 0, the heap is as before and the
\* caller is running again.
AllocFailsCleanly ==
    (heapcall.valid /\ heapcall.id = SYS_ALLOC) =>
        LET layout == Layout_from_size_align(heapcall.x0, heapcall.x1)
        IN (~layout.ok \/ FreeFor(heapcall.before, layout) = {}) =>
               /\ heapcall.result = 0
               /\ heap = heapcall.before
               /\ cpu.top.pc = "user"

\* C21: dealloc acts on the caller's pointer, size and align: it frees the
\* allocation and returns 0 when (size, align) is a valid layout, frees
\* nothing and returns 1 when it is not; alloc returns 0 without crashing
\* when (size, align) is no valid layout or the heap cannot satisfy it.
C21_HeapCallsActOnCallerArgs ==
    DeallocActsOnCallerArgs /\ AllocFailsCleanly


\* C32: with the scheduler's operations executed one at a time, once
\* init() has run the table holds between 1 and MAX_TASKS tasks, the
\* current index designates one of them, the slots from TASK_COUNT on are
\* Unused and those below it are not, and a slot in state Running is the
\* current one (so at most one slot is Running).
C32_TableShape ==
    initialized =>
        /\ 1 <= TASK_COUNT /\ TASK_COUNT <= MAX_TASKS
        /\ CURRENT_TASK < TASK_COUNT
        /\ \A j \in Slots :
              /\ j >= TASK_COUNT => TASKS[j].state = "Unused"
              /\ j < TASK_COUNT => TASKS[j].state # "Unused"
              /\ TASKS[j].state = "Running" => j = CURRENT_TASK


\* C32 witness: the table holds an exited slot and a blocked slot while the
\* idle task, back in after switches away from it, is the Running one.
C32_IdleRunsAmongStopped ==
    /\ initialized /\ TASK_COUNT = 3 /\ CURRENT_TASK = 0
    /\ TASKS[0].state = "Running" /\ TASKS[0].stack_top.kind # "null"
    /\ TASKS[1].state = "Dead" /\ TASKS[2].state = "Blocked"


\* On the way to the machine h no switch was made, and the current index,
\* the stack in use, the enable flag and every slot other than slot
\* TASK_COUNT are what they are now.
OnlyNewSlot(h) ==
    /\ ~h.ev.switched
    /\ h.CURRENT_TASK = CURRENT_TASK
    /\ h.sp_owner = sp_owner
    /\ h.SCHEDULER_ENABLED = SCHEDULER_ENABLED
    /\ \A j \in Slots : j # TASK_COUNT => h.TASKS[j] = TASKS[j]
    /\ h.TASK_COUNT \in {TASK_COUNT, TASK_COUNT + 1}
    /\ h.NEXT_PID \in {NEXT_PID, NEXT_PID + 1}

\* C33: spawn_named and spawn_user switch nothing and write only the new
\* slot, TASK_COUNT and NEXT_PID, whatever the priority and whatever the
\* stack allocation gave; a spawn refused at capacity writes no slot.
C33_SpawnFrame ==
    InTask =>
        \A alloc \in AllocOutcomes :
            /\ \A p \in AllPriorities : OnlyNewSlot(spawn_named(World, p, alloc))
            /\ OnlyNewSlot(spawn_user(World, alloc))
            /\ TASK_COUNT >= MAX_TASKS =>
                  spawn_user(World, alloc).TASKS = TASKS

\* C33 witness: a spawn can be called with the scheduler enabled by a task
\* of the lowest spawned priority while another task is Ready.
C33_SpawnWhileOthersReady ==
    /\ InTask /\ SCHEDULER_ENABLED /\ TASK_COUNT \in 2 .. (MAX_TASKS - 1)
    /\ CURRENT_TASK # 0 /\ OtherReady


\* Entry addresses given to spawn_named.
EntryAddrs == {4096, 8192}

\* If the switch made on the way to the machine h was the first one into a
\* kernel task, the task is running its own code on its own stack, as the
\* current task, with interrupts unmasked.
FirstRun(h) ==
    (h.ev.switched /\ TASKS[h.ev.to].stack_top.kind = "kframe") =>
        /\ h.cpu = [top |-> At("task"), under |-> NoPos]
        /\ h.sp_owner = h.ev.to
        /\ h.CURRENT_TASK = h.ev.to
        /\ h.TASKS[h.ev.to].state = "Running"
        /\ ~h.irq_masked

\* In the machine h the task current now is Dead and either another task
\* was switched to or the kernel is in a halt loop.
ExitedFor(h) ==
    /\ h.TASKS[CURRENT_TASK].state = "Dead"
    /\ \/ h.ev.switched /\ h.CURRENT_TASK # CURRENT_TASK
       \/ h.cpu.top.pc \in {"halt", "fatal"}

\* C31: the frame spawn_named builds makes the first switch into the task
\* return into the kernel trampoline with the entry address given to
\* spawn_named; the first selection of a kernel task, from schedule(),
\* block, exit or the timer's tick, leaves it running with interrupts
\* enabled; and when its entry returns (the trampoline calls
\* exit_current_task) the task is Dead and the scheduler has switched to
\* another task or halted.
C31_KernelTaskLife ==
    /\ \A entry \in EntryAddrs :
          LET regs == context_restore(kernel_frame(entry))
          IN /\ regs.x30 = TASK_TRAMPOLINE
             /\ task_trampoline(regs) = [entry |-> entry, irq_masked |-> FALSE]
    /\ (InTask /\ SCHEDULER_ENABLED) =>
          /\ FirstRun(schedule(World, "task"))
          /\ \A stale \in StaleOutcomes :
                /\ FirstRun(block_current_task(Machine(stale)))
                /\ FirstRun(exit_current_task(Machine(stale)))
    /\ (initialized /\ IrqOpen) => FirstRun(tick(irq_enter(World)))
    /\ (InTask /\ CURRENT_TASK # 0 /\ sp_owner = CURRENT_TASK
          /\ TASKS[CURRENT_TASK].state = "Running") =>
          \A stale \in StaleOutcomes :
              ExitedFor(exit_current_task(Machine(stale)))

\* C31 witness: the timer's tick is about to switch, inside the interrupt
\* handler, into a kernel task that has never run.
C31_FirstRunFromTick ==
    /\ initialized /\ IrqOpen /\ SCHEDULER_ENABLED
    /\ tick(irq_enter(World)).ev.switched
    /\ TASKS[tick(irq_enter(World)).ev.to].stack_top.kind = "kframe"


\* C34: a timer tick that preempts a task inside spawn_named never selects
\* the slot that spawn is filling: the slot is outside the scan until
\* TASK_COUNT is incremented, after all its fields are written.
C34_TickSkipsSlotUnderConstruction ==
    (initialized /\ IrqOpen /\ cpu.top.pc \in BuildPcs) =>
        LET h == tick(irq_enter(World))
        IN /\ cpu.top.cur >= TASK_COUNT
           /\ h.ev.switched => h.ev.to # cpu.top.cur


\* No spawn is in progress: the CPU is not inside spawn_named and no
\* suspended task was interrupted inside it.
NoSpawnInProgress ==
    /\ cpu.top.pc \notin SpawnPcs
    /\ cpu.under.pc \notin SpawnPcs
    /\ \A i \in Slots :
          TASKS[i].stack_top.kind = "saved" =>
              /\ TASKS[i].stack_top.under.pc \notin SpawnPcs
              /\ TASKS[i].stack_top.top.pc \notin SpawnPcs

\* C35: spawns interleaved by the timer (one task preempted in the middle
\* of spawn_named, another spawning before it resumes) still give each new
\* task a slot and an identifier of its own: once they have all returned,
\* TASK_COUNT has grown by one per spawn, the spawned slots carry pairwise
\* distinct identifiers, every identifier handed out is that of a slot, and
\* no slot below TASK_COUNT is Unused.
C35_InterleavedSpawnsKeepApart ==
    (initialized /\ NoSpawnInProgress) =>
        /\ TASK_COUNT = 1 + Len(ids)
        /\ \A i, j \in 0 .. (TASK_COUNT - 1) :
              i # j => TASKS[i].id # TASKS[j].id
        /\ \A k \in 1 .. Len(ids) :
              \E i \in 1 .. (TASK_COUNT - 1) : TASKS[i].id = ids[k]
        /\ \A i \in 0 .. (TASK_COUNT - 1) : TASKS[i].state # "Unused"


\* C36: console output made with interrupts masked completes: no handler
\* (the print and exit system calls, the unknown-interrupt diagnostic) is
\* ever waiting for the console lock with interrupts masked while the
\* holder is a task that was interrupted or preempted in its own print
\* (a wait that nothing can end, the holder being unable to run).
C36_MaskedPrintCompletes ==
    ~(cpu.top.pc = "spin" /\ irq_masked /\ uart_lock.held)


\* The tasks that can run: the slots of the table that are Ready or Running.
Runnable ==
    {j \in 0 .. (TASK_COUNT - 1) : TASKS[j].state \in {"Ready", "Running"}}

\* C37: preemption stays live: with the scheduler enabled, a task running
\* its own code can always be interrupted by the timer; in particular a
\* task that yielded with interrupts enabled and is switched back in by a
\* selection made inside the timer's handler resumes with interrupts
\* unmasked.
C37_RunningTaskIsPreemptible ==
    (initialized /\ SCHEDULER_ENABLED
       /\ Cardinality(Runnable) >= 2
       /\ cpu.top.pc \in {"task", "user"}) => ~irq_masked

====
